---- MODULE Spec2Model ----
(***************************************************************************)
(* Model of the difference-in-differences pipelines of HASE-25:            *)
(*   - analysis/analysis-all-data.py: event counts on a complete user-day  *)
(*     grid, window filter, two OLS fits (specification Spec);             *)
(*   - scripts/simple_did_analysis.py: line-level sums per user-day of     *)
(*     the enriched commits, three OLS fits (specification SpecDid);       *)
(*   - scripts/enrich_commit_samples.py: the enrichment loop of one sample *)
(*     file (specification SpecEnrich);                                    *)
(*   - fetch_commit_events.py: save_results and its clean-up of commit     *)
(*     messages (specification SpecSave);                                  *)
(*   - fetch_commit_data.py: one call of fetch_commit_data (SpecFetch);    *)
(*   - scripts/create_commit_samples_fast.py: the sizes of a sample        *)
(*     (specification SpecSample);                                         *)
(*   - scripts/fetch_commit_data.py: fetch_commits_and_update_csv          *)
(*     (specification SpecUpdate).                                         *)
(*                                                                         *)
(* Data frames are sequences of records (row order is part of the state).  *)
(* Instants are whole hours since 1970-01-01 00:00, dates are whole days   *)
(* since 1970-01-01.                                                       *)
(***************************************************************************)
EXTENDS Integers, Sequences, FiniteSets, TLC

VARIABLES italy_commits, austria_commits, france_commits, all_commits,
          df_counts, df_user_day, df_analysis,
          model_count, model_prob, solver_calls, raised, pc,
          combined_df, seven_days_only, daily_user_stats, fitted,
          sample_df, max_commits, github_token, required_cols, processed,
          successful, failed, http_requests, fetch_log, output_file, reported,
          commit_events_df, commit_events_file,
          token, env_token, repository_full_name, response, fetch_outcome,
          requests_get,
          sample_size, before_rows, after_rows, outside_rows,
          sample_before_size, sample_after_size, final_sample,
          commits_csv, csv_state, chunksize, commits_limit, commits_idx,
          chunk_idx, row_pos, write_cache, first_write, tmpf, changes_csv,
          attempts

vars == <<italy_commits, austria_commits, france_commits, all_commits,
          df_counts, df_user_day, df_analysis,
          model_count, model_prob, solver_calls, raised, pc,
          combined_df, seven_days_only, daily_user_stats, fitted,
          sample_df, max_commits, github_token, required_cols, processed,
          successful, failed, http_requests, fetch_log, output_file, reported,
          commit_events_df, commit_events_file,
          token, env_token, repository_full_name, response, fetch_outcome,
          requests_get,
          sample_size, before_rows, after_rows, outside_rows,
          sample_before_size, sample_after_size, final_sample,
          commits_csv, csv_state, chunksize, commits_limit, commits_idx,
          chunk_idx, row_pos, write_cache, first_write, tmpf, changes_csv,
          attempts>>

\* State of a run of scripts/simple_did_analysis.py.
didVars == <<combined_df, seven_days_only, daily_user_stats, fitted>>

\* State of a run of analysis/analysis-all-data.py.
allDataVars == <<italy_commits, austria_commits, france_commits, all_commits,
                 df_counts, df_user_day, df_analysis, model_count, model_prob>>

\* State of one call of enrich_sample_file (scripts/enrich_commit_samples.py).
enrichVars == <<sample_df, max_commits, github_token, required_cols, processed,
                successful, failed, http_requests, fetch_log, output_file,
                reported>>

\* State of one call of save_results (fetch_commit_events.py).
saveVars == <<commit_events_df, commit_events_file>>

\* State of one call of fetch_commit_data (fetch_commit_data.py).
fetchVars == <<token, env_token, repository_full_name, response, fetch_outcome,
               requests_get>>

\* State of one call of create_representative_sample_optimized.
sampleVars == <<sample_size, before_rows, after_rows, outside_rows,
                sample_before_size, sample_after_size, final_sample>>

\* Program state of scripts/fetch_commit_data.py, fetch_commits_and_update_csv.
updateVars == <<commits_csv, csv_state, chunksize, commits_limit,
                commits_idx, chunk_idx, row_pos, write_cache, first_write,
                tmpf, changes_csv, attempts>>

\* The variables of the programs other than the one that runs stay as
\* they are.
outsideAllData == <<didVars, enrichVars, saveVars, fetchVars, sampleVars, updateVars>>

outsideDid == <<allDataVars, enrichVars, saveVars, fetchVars, sampleVars, updateVars>>

outsideEnrich == <<allDataVars, didVars, saveVars, fetchVars, sampleVars, updateVars>>

outsideSave == <<allDataVars, didVars, enrichVars, fetchVars, sampleVars, updateVars>>

outsideFetch == <<allDataVars, didVars, enrichVars, saveVars, sampleVars, updateVars>>

outsideSample == <<allDataVars, didVars, enrichVars, saveVars, fetchVars, updateVars>>

outsideUpdate == <<allDataVars, didVars, enrichVars, saveVars, fetchVars, sampleVars>>

-----------------------------------------------------------------------------
(* Bounds and input universe *)

\* Largest total number of rows over the three input files.
MaxEvents == 4

\* A missing username cell (pandas NaN in an object column).
NULL == "NaN"

\* A missing numeric cell (pandas NaN); every real count is >= 0.
NaN == 0 - 1

\* A missing event_timestamp cell (pandas NaT); every real instant is >= 0.
NaT == 0 - 1

Usernames == {"ann", "bob"}

-----------------------------------------------------------------------------
(* Calendar arithmetic *)

\* pd.to_datetime('YYYY-MM-DD'): the day number of a civil date.
to_datetime(ymd) ==
    LET y   == IF ymd[2] <= 2 THEN ymd[1] - 1 ELSE ymd[1]
        era == y \div 400
        yoe == y - era * 400
        mp  == IF ymd[2] > 2 THEN ymd[2] - 3 ELSE ymd[2] + 9
        doy == (153 * mp + 2) \div 5 + ymd[3] - 1
        doe == yoe * 365 + yoe \div 4 - yoe \div 100 + doy
    IN  era * 146097 + doe - 719468

\* An instant: hour h of the civil date ymd.
Instant(ymd, h) == to_datetime(ymd) * 24 + h

\* Series.dt.date: the date of an instant (NaT stays NaT).
dt_date(ts) == IF ts = NaT THEN NaT ELSE ts \div 24

DayNames == <<"Monday", "Tuesday", "Wednesday", "Thursday",
              "Friday", "Saturday", "Sunday">>

\* Timestamp.day_name() of a date; day 0 (1970-01-01) is a Thursday.
DayNameOfDate(d) == DayNames[((d + 3) % 7) + 1]

\* Series.dt.day_name(): the weekday name of an instant (NaT gives NaN).
dt_day_name(ts) == IF ts = NaT THEN NULL ELSE DayNameOfDate(ts \div 24)

-----------------------------------------------------------------------------
(* Analysis parameters *)

policy_start_date == <<2023, 4, 1>>

window_length == 7

start_date == to_datetime(policy_start_date)

\* Mutation of end_date: the window end taken one day late.
end_date_exclusive == start_date + window_length

\* start_date + DateOffset(days = window_length - 1)
end_date == start_date + (window_length - 1)

-----------------------------------------------------------------------------
(* Input files *)

\* Instants the input rows are drawn from: a pre-period day, the policy
\* start, the last day of the window (late in the day) and the first day
\* after the window.
Timestamps == { Instant(<<2023, 3, 31>>, 10), Instant(<<2023, 4, 1>>, 0),
                Instant(<<2023, 4, 7>>, 23), Instant(<<2023, 4, 8>>, 0) }

\* Rows a commit-events CSV can hold, as read by pd.read_csv with
\* parse_dates: well-formed rows, a row with an empty username cell and a
\* row with an empty event_timestamp cell.
FileRows ==
    [username : Usernames, event_timestamp : Timestamps]
      \cup { [username |-> NULL, event_timestamp |-> Instant(<<2023, 4, 1>>, 0)],
             [username |-> "ann", event_timestamp |-> NaT] }

RECURSIVE SeqsUpTo(_, _)
\* All sequences over S of length at most n.
SeqsUpTo(S, n) ==
    IF n = 0 THEN { <<>> }
    ELSE LET shorter == SeqsUpTo(S, n - 1)
         IN  shorter \cup { Append(s, x) : s \in { t \in shorter : Len(t) = n - 1 }, x \in S }

-----------------------------------------------------------------------------
(* Data-frame primitives (pandas) *)

\* Code-point order of the strings that occur as group keys.
Collation == <<"Austria", "France", "Friday", "Italy", "Monday", "Saturday",
               "Sunday", "Thursday", "Tuesday", "Wednesday",
               "ann", "austria", "bob", "france", "italy">>

StrRank(s) == CHOOSE i \in DOMAIN Collation : Collation[i] = s

\* Order of the group keys (date, country, username, day_of_week) that
\* groupby(sort=True) sorts its result by.
KeyLess(a, b) ==
    \/ a.date < b.date
    \/ a.date = b.date /\ StrRank(a.country) < StrRank(b.country)
    \/ a.date = b.date /\ a.country = b.country
         /\ StrRank(a.username) < StrRank(b.username)
    \/ a.date = b.date /\ a.country = b.country /\ a.username = b.username
         /\ StrRank(a.day_of_week) < StrRank(b.day_of_week)

RECURSIVE SetToSeq(_)
SetToSeq(S) ==
    IF S = {} THEN <<>>
    ELSE LET x == CHOOSE y \in S : TRUE IN <<x>> \o SetToSeq(S \ {x})

GroupKey(r) == [date |-> r.date, country |-> r.country,
                username |-> r.username, day_of_week |-> r.day_of_week]

\* groupby drops a row when any of its group keys is missing (dropna=True).
HasNullKey(r) == r.date = NaT \/ r.username = NULL \/ r.day_of_week = NULL

\* Variant: one per group, whatever the number of its rows.
groupby_any(frame) ==
    LET kept   == SelectSeq(frame, LAMBDA r : ~HasNullKey(r))
        keys   == { GroupKey(kept[i]) : i \in DOMAIN kept }
        sorted == SortSeq(SetToSeq(keys), KeyLess)
    IN  [ i \in DOMAIN sorted |->
            [ date         |-> sorted[i].date,
              country      |-> sorted[i].country,
              username     |-> sorted[i].username,
              day_of_week  |-> sorted[i].day_of_week,
              commit_count |-> 1 ] ]

\* frame.groupby(['date','country','username','day_of_week']).size()
\*      .reset_index(name='commit_count')
groupby_size(frame) ==
    LET kept   == SelectSeq(frame, LAMBDA r : ~HasNullKey(r))
        keys   == { GroupKey(kept[i]) : i \in DOMAIN kept }
        sorted == SortSeq(SetToSeq(keys), KeyLess)
    IN  [ i \in DOMAIN sorted |->
            [ date         |-> sorted[i].date,
              country      |-> sorted[i].country,
              username     |-> sorted[i].username,
              day_of_week  |-> sorted[i].day_of_week,
              commit_count |->
                 Cardinality({ j \in DOMAIN kept : GroupKey(kept[j]) = sorted[i] }) ] ]

RECURSIVE drop_duplicates(_)
\* DataFrame.drop_duplicates(): the first occurrence of every row, in order.
drop_duplicates(s) ==
    IF s = <<>> THEN <<>>
    ELSE LET init == drop_duplicates(SubSeq(s, 1, Len(s) - 1))
             last == s[Len(s)]
         IN  IF \E i \in DOMAIN init : init[i] = last THEN init
             ELSE Append(init, last)

\* left.merge(right, how='cross'): every left row with every right row,
\* left-major.
cross_merge(users, dates) ==
    [ k \in 1 .. (Len(users) * Len(dates)) |->
        LET u == users[((k - 1) \div Len(dates)) + 1]
            d == dates[((k - 1) % Len(dates)) + 1]
        IN  [ username |-> u.username, country |-> u.country,
              date |-> d.date, day_of_week |-> d.day_of_week ] ]

\* Mutation of MergeKeysMatch: the join keyed on username and date only.
MergeOnUserDate(l, r) ==
    /\ l.username = r.username
    /\ l.date = r.date

\* The join condition on=['username','country','date','day_of_week'].
MergeKeysMatch(l, r) ==
    /\ l.username = r.username
    /\ l.country = r.country
    /\ l.date = r.date
    /\ l.day_of_week = r.day_of_week

RECURSIVE inner_merge(_, _)
\* Mutation of left_merge: how='inner', unmatched left rows are lost.
inner_merge(left, right) ==
    IF left = <<>> THEN <<>>
    ELSE LET l == Head(left)
             m == SelectSeq(right, LAMBDA r : MergeKeysMatch(l, r))
         IN  [ i \in DOMAIN m |->
                 [ username |-> l.username, country |-> l.country,
                   date |-> l.date, day_of_week |-> l.day_of_week,
                   commit_count |-> m[i].commit_count ] ]
               \o inner_merge(Tail(left), right)

RECURSIVE left_merge(_, _)
\* left.merge(right, on=[...], how='left'): for every left row one result
\* row per matching right row, or one row with a missing commit_count.
left_merge(left, right) ==
    IF left = <<>> THEN <<>>
    ELSE LET l == Head(left)
             m == SelectSeq(right, LAMBDA r : MergeKeysMatch(l, r))
             counts == IF m = <<>> THEN << NaN >>
                       ELSE [ i \in DOMAIN m |-> m[i].commit_count ]
         IN  [ i \in DOMAIN counts |->
                 [ username |-> l.username, country |-> l.country,
                   date |-> l.date, day_of_week |-> l.day_of_week,
                   commit_count |-> counts[i] ] ]
               \o left_merge(Tail(left), right)

\* Series.fillna(0)
fillna0(v) == IF v = NaN THEN 0 ELSE v

\* Mutation of did_commit_of: the comparison made non-strict.
did_commit_nonstrict(count) == IF count >= 0 THEN 1 ELSE 0

\* (Series > 0).astype(int)
did_commit_of(count) == IF count > 0 THEN 1 ELSE 0

-----------------------------------------------------------------------------
(* The pipeline of analysis-all-data.py *)

\* Country column added to each file, then pd.concat in this order.
TagCountry(file, country) ==
    [ i \in DOMAIN file |->
        [ username |-> file[i].username,
          event_timestamp |-> file[i].event_timestamp,
          country |-> country ] ]

\* pd.concat of the tagged files with the date and day_of_week columns.
AllCommitsFrame ==
    LET cat == TagCountry(italy_commits, "Italy")
                 \o TagCountry(austria_commits, "Austria")
                 \o TagCountry(france_commits, "France")
    IN  [ i \in DOMAIN cat |->
            [ username |-> cat[i].username,
              event_timestamp |-> cat[i].event_timestamp,
              country |-> cat[i].country,
              date |-> dt_date(cat[i].event_timestamp),
              day_of_week |-> dt_day_name(cat[i].event_timestamp) ] ]

unique_users ==
    drop_duplicates([ i \in DOMAIN df_counts |->
        [ username |-> df_counts[i].username, country |-> df_counts[i].country ] ])

\* Mutation of unique_dates: every day from the first to the last observed
\* date (a continuous pd.date_range) instead of the observed dates.
unique_dates_range ==
    IF df_counts = <<>> THEN <<>>
    ELSE LET ds == { df_counts[i].date : i \in DOMAIN df_counts }
             lo == CHOOSE d \in ds : \A e \in ds : d <= e
             hi == CHOOSE d \in ds : \A e \in ds : e <= d
         IN  [ k \in 1 .. (hi - lo + 1) |->
                 [ date |-> lo + k - 1, day_of_week |-> DayNameOfDate(lo + k - 1) ] ]

unique_dates ==
    drop_duplicates([ i \in DOMAIN df_counts |->
        [ date |-> df_counts[i].date, day_of_week |-> df_counts[i].day_of_week ] ])

df_grid == cross_merge(unique_users, unique_dates)

\* Steps 4-6 of the grid section: merge, fill, binary outcome.
UserDayFrame ==
    LET merged == left_merge(df_grid, df_counts)
    IN  [ i \in DOMAIN merged |->
            LET c == fillna0(merged[i].commit_count)
            IN  [ username |-> merged[i].username, country |-> merged[i].country,
                  date |-> merged[i].date, day_of_week |-> merged[i].day_of_week,
                  commit_count |-> c, did_commit |-> did_commit_of(c) ] ]

\* DataFrame.sample(n) without replacement needs n rows.
SampleSize == 5

pre_period_data(r) == r.date < start_date

post_window_data(r) == r.date >= start_date /\ r.date <= end_date

InWindow(r) == pre_period_data(r) \/ post_window_data(r)

\* Variant: the policy start date itself counted as pre-period.
post_policy_after(r) == IF r.date > start_date THEN 1 ELSE 0

post_policy_of(r) == IF r.date >= start_date THEN 1 ELSE 0

is_treatment_of(r) == IF r.country = "Italy" THEN 1 ELSE 0

AnalysisFrame ==
    LET kept == SelectSeq(df_user_day, InWindow)
    IN  [ i \in DOMAIN kept |->
            [ username |-> kept[i].username, country |-> kept[i].country,
              date |-> kept[i].date, day_of_week |-> kept[i].day_of_week,
              commit_count |-> kept[i].commit_count,
              did_commit |-> kept[i].did_commit,
              post_policy |-> post_policy_of(kept[i]),
              is_treatment |-> is_treatment_of(kept[i]) ] ]

\* The four treatment x period cells of a frame with the DiD dummies.
Cell(frame, t, p) ==
    { i \in DOMAIN frame : frame[i].is_treatment = t /\ frame[i].post_policy = p }

SomeCellEmpty(frame) == \E t \in {0, 1}, p \in {0, 1} : Cell(frame, t, p) = {}

\* smf.ols(formula, data).fit() inside try/except Exception: the solver
\* is handed the frame as it is.  On a frame with all four cells it
\* returns a fit whose summary is printed; on any other frame the library
\* either returns a (rank-deficient) fit or raises, and the except branch
\* prints the message.
OlsOutcomes(frame) ==
    IF SomeCellEmpty(frame) THEN {"summary", "exception"} ELSE {"summary"}

-----------------------------------------------------------------------------
(* State machine: one run of analysis-all-data.py *)

\* No call of enrich_sample_file is under way.
EnrichIdle ==
    /\ sample_df = <<>>
    /\ max_commits = 0
    /\ github_token = FALSE
    /\ required_cols = FALSE
    /\ processed = 0
    /\ successful = 0
    /\ failed = 0
    /\ http_requests = 0
    /\ fetch_log = <<>>
    /\ output_file = <<>>
    /\ reported = <<>>

\* No call of save_results is under way.
SaveIdle ==
    /\ commit_events_df = <<>>
    /\ commit_events_file = <<>>

\* No call of fetch_commit_data is under way.
FetchIdle ==
    /\ token = NULL
    /\ env_token = NULL
    /\ repository_full_name = ""
    /\ response = [status_code |-> 0, remaining |-> NULL, reset |-> NULL]
    /\ fetch_outcome = [kind |-> "none", value |-> "none", message |-> "none"]
    /\ requests_get = 0

\* No call of create_representative_sample_optimized is under way.
SampleIdle ==
    /\ sample_size = 0
    /\ before_rows = 0
    /\ after_rows = 0
    /\ outside_rows = 0
    /\ sample_before_size = 0
    /\ sample_after_size = 0
    /\ final_sample = <<>>

\* No call of fetch_commits_and_update_csv is under way.
UpdateIdle ==
    /\ commits_csv = <<>>
    /\ csv_state = "none"
    /\ chunksize = 0
    /\ commits_limit = <<>>
    /\ commits_idx = 0
    /\ chunk_idx = 0
    /\ row_pos = 0
    /\ write_cache = <<>>
    /\ first_write = FALSE
    /\ tmpf = <<>>
    /\ changes_csv = <<>>
    /\ attempts = <<>>

\* The three commit-event files as read by pd.read_csv.
Init ==
    /\ \E all \in SeqsUpTo(FileRows, MaxEvents) :
         \E i \in 0 .. Len(all), j \in 0 .. Len(all) :
            /\ i <= j
            /\ italy_commits = SubSeq(all, 1, i)
            /\ austria_commits = SubSeq(all, i + 1, j)
            /\ france_commits = SubSeq(all, j + 1, Len(all))
    /\ all_commits = <<>>
    /\ df_counts = <<>>
    /\ df_user_day = <<>>
    /\ df_analysis = <<>>
    /\ model_count = "unset"
    /\ model_prob = "unset"
    /\ solver_calls = 0
    /\ raised = "none"
    /\ pc = "prepare"
    /\ combined_df = <<>>
    /\ seven_days_only = FALSE
    /\ daily_user_stats = <<>>
    /\ fitted = <<>>
    /\ EnrichIdle
    /\ SaveIdle
    /\ FetchIdle
    /\ SampleIdle
    /\ UpdateIdle

\* Section 2: tag, concatenate, derive date and weekday, count.
PrepareData ==
    /\ pc = "prepare"
    /\ all_commits' = AllCommitsFrame
    /\ df_counts' = groupby_size(all_commits')
    /\ pc' = "grid"
    /\ UNCHANGED <<italy_commits, austria_commits, france_commits, df_user_day,
                   df_analysis, model_count, model_prob, solver_calls, raised>>
    /\ UNCHANGED outsideAllData

\* Section 2 on three files without data rows: read_csv may leave the
\* event_timestamp column of an empty file untyped (object), and the .dt
\* accessor then raises AttributeError; nothing catches it.  With a typed
\* empty column PrepareData applies instead.
PrepareDataUntyped ==
    /\ pc = "prepare"
    /\ italy_commits = <<>> /\ austria_commits = <<>> /\ france_commits = <<>>
    /\ raised' = "AttributeError"
    /\ pc' = "crashed"
    /\ UNCHANGED <<italy_commits, austria_commits, france_commits, all_commits,
                   df_counts, df_user_day, df_analysis, model_count, model_prob,
                   solver_calls>>
    /\ UNCHANGED outsideAllData

\* Section 3, steps 1-6: the complete user-day grid.
CreateGrid ==
    /\ pc = "grid"
    /\ df_user_day' = UserDayFrame
    /\ pc' = "sample"
    /\ UNCHANGED <<italy_commits, austria_commits, france_commits, all_commits, df_counts,
                   df_analysis, model_count, model_prob, solver_calls, raised>>
    /\ UNCHANGED outsideAllData

\* print(df_user_day.sample(5)): ValueError on a frame of fewer than five
\* rows; nothing catches it and the run ends.
PrintSample ==
    /\ pc = "sample"
    /\ IF Len(df_user_day) < SampleSize
         THEN raised' = "ValueError" /\ pc' = "crashed"
         ELSE raised' = raised /\ pc' = "window"
    /\ UNCHANGED <<italy_commits, austria_commits, france_commits, all_commits, df_counts,
                   df_user_day, df_analysis, model_count, model_prob, solver_calls>>
    /\ UNCHANGED outsideAllData

\* Section 4: window filter and DiD dummies.
FilterWindow ==
    /\ pc = "window"
    /\ df_analysis' = AnalysisFrame
    /\ pc' = "fit_count"
    /\ UNCHANGED <<italy_commits, austria_commits, france_commits, all_commits, df_counts,
                   df_user_day, model_count, model_prob, solver_calls, raised>>
    /\ UNCHANGED outsideAllData

\* Variant: a fit that drops the rows without commits from the frame it
\* is given (listwise deletion in place).
FitCountInPlace ==
    /\ pc = "fit_count"
    /\ solver_calls' = solver_calls + 1
    /\ df_analysis' = SelectSeq(df_analysis, LAMBDA r : r.commit_count > 0)
    /\ model_count' \in OlsOutcomes(df_analysis')
    /\ pc' = "fit_prob"
    /\ UNCHANGED <<italy_commits, austria_commits, france_commits, all_commits, df_counts,
                   df_user_day, model_prob, raised>>
    /\ UNCHANGED outsideAllData

\* Section 5: regression 1 (commit count).
FitCount ==
    /\ pc = "fit_count"
    /\ solver_calls' = solver_calls + 1
    /\ model_count' \in OlsOutcomes(df_analysis)
    /\ pc' = "fit_prob"
    /\ UNCHANGED <<italy_commits, austria_commits, france_commits, all_commits, df_counts,
                   df_user_day, df_analysis, model_prob, raised>>
    /\ UNCHANGED outsideAllData

\* Section 6: regression 2 (probability of committing).
FitProb ==
    /\ pc = "fit_prob"
    /\ solver_calls' = solver_calls + 1
    /\ model_prob' \in OlsOutcomes(df_analysis)
    /\ pc' = "done"
    /\ UNCHANGED <<italy_commits, austria_commits, france_commits, all_commits, df_counts,
                   df_user_day, df_analysis, model_count, raised>>
    /\ UNCHANGED outsideAllData

Next ==
    \/ PrepareData
    \/ PrepareDataUntyped
    \/ CreateGrid
    \/ PrintSample
    \/ FilterWindow
    \/ FitCount
    \/ FitProb

Spec == Init /\ [][Next]_vars

-----------------------------------------------------------------------------
(* scripts/simple_did_analysis.py: line-level DiD on enriched commits *)

\* Largest total number of rows over the three enriched sample files.
MaxCommits == 3

\* The api_additions / api_deletions / api_changes cells of an enriched
\* row: a fetched commit without changed lines, a fetched commit with
\* changed lines, and a commit whose fetch did not succeed (empty cells).
ApiStats == { <<0, 0, 0>>, <<3, 1, 4>>, <<NaN, NaN, NaN>> }

\* Rows an enriched sample CSV can hold.
EnrichedRows ==
    { [ username |-> u, event_timestamp |-> t, commit_sha |-> "c0ffee",
        api_additions |-> a[1], api_deletions |-> a[2], api_changes |-> a[3] ] :
      u \in Usernames, t \in Timestamps, a \in ApiStats }

\* load_and_prepare_data: df['country'] = country for one file.
LoadCountry(file, country) ==
    [ i \in DOMAIN file |->
        [ username |-> file[i].username,
          event_timestamp |-> file[i].event_timestamp,
          commit_sha |-> file[i].commit_sha,
          api_additions |-> file[i].api_additions,
          api_deletions |-> file[i].api_deletions,
          api_changes |-> file[i].api_changes,
          country |-> country ] ]

\* Variant: no row is dropped for empty api_ cells.
api_missing_kept(r) == FALSE

\* df.dropna(subset=['api_additions','api_deletions','api_changes'])
api_missing(r) ==
    r.api_additions = NaN \/ r.api_deletions = NaN \/ r.api_changes = NaN

april_1st == to_datetime(<<2023, 4, 1>>)

april_8th == to_datetime(<<2023, 4, 8>>)

\* Variant: April 8th itself kept.
seven_day_filter_inclusive(frame, flag) ==
    IF flag THEN SelectSeq(frame, LAMBDA r : dt_date(r.event_timestamp) <= april_8th)
    ELSE frame

\* if seven_days_only: df = df[df['date'] < april_8th]
seven_day_filter(frame, flag) ==
    IF flag THEN SelectSeq(frame, LAMBDA r : dt_date(r.event_timestamp) < april_8th)
    ELSE frame

\* Order of the group keys (username, country, date).
UserDayLess(a, b) ==
    \/ StrRank(a.username) < StrRank(b.username)
    \/ a.username = b.username /\ StrRank(a.country) < StrRank(b.country)
    \/ a.username = b.username /\ a.country = b.country /\ a.date < b.date

UserDayKey(r) ==
    [ username |-> r.username, country |-> r.country,
      date |-> dt_date(r.event_timestamp) ]

RECURSIVE SumSeq(_)
\* 'sum' of the aggregation: the sum of the values present (NaN is skipped).
SumSeq(xs) ==
    IF xs = <<>> THEN 0
    ELSE (IF Head(xs) = NaN THEN 0 ELSE Head(xs)) + SumSeq(Tail(xs))

\* df.groupby(['username','country','date']).agg(sum, sum, sum, count)
\*   .reset_index(), commit_sha renamed to commits_count.
groupby_agg(frame) ==
    LET keys   == { UserDayKey(frame[i]) : i \in DOMAIN frame }
        sorted == SortSeq(SetToSeq(keys), UserDayLess)
        Group(k) == SelectSeq(frame, LAMBDA r : UserDayKey(r) = k)
    IN  [ n \in DOMAIN sorted |->
            LET g == Group(sorted[n])
            IN  [ username      |-> sorted[n].username,
                  country       |-> sorted[n].country,
                  date          |-> sorted[n].date,
                  api_additions |-> SumSeq([ i \in DOMAIN g |-> g[i].api_additions ]),
                  api_deletions |-> SumSeq([ i \in DOMAIN g |-> g[i].api_deletions ]),
                  api_changes   |-> SumSeq([ i \in DOMAIN g |-> g[i].api_changes ]),
                  commits_count |->
                     Cardinality({ i \in DOMAIN g : g[i].commit_sha # NULL }) ] ]

treatment_of(r) == IF r.country = "italy" THEN 1 ELSE 0

post_treatment_of(r) == IF r.date >= april_1st THEN 1 ELSE 0

\* Mutation of treatment_post_of: the indicators combined by OR.
treatment_post_either(t, p) == IF t = 1 \/ p = 1 THEN 1 ELSE 0

\* daily_user_stats['treatment'] * daily_user_stats['post_treatment']
treatment_post_of(t, p) == t * p

\* round(1000 * ln(1 + x)) for x = 0, 1, 2, ...
Log1pTable == << 0, 693, 1099, 1386, 1609, 1792, 1946, 2079, 2197, 2303, 2398,
                 2485, 2565, 2639, 2708, 2773, 2833, 2890, 2944, 2996, 3045 >>

\* np.log1p of a non-negative whole number, in thousandths.
\* Variant: the plain logarithm, which has no value at 0.
plain_log(x) == IF x = 0 THEN NaN ELSE Log1pTable[x]

log1p(x) == Log1pTable[x + 1]

\* prepare_did_variables(df, seven_days_only)
PreparedFrame(df, flag) ==
    LET fetched == SelectSeq(df, LAMBDA r : ~api_missing(r))
        kept    == seven_day_filter(fetched, flag)
        stats   == groupby_agg(kept)
    IN  [ i \in DOMAIN stats |->
            LET r == stats[i]
            IN  [ username       |-> r.username,
                  country        |-> r.country,
                  date           |-> r.date,
                  api_additions  |-> r.api_additions,
                  api_deletions  |-> r.api_deletions,
                  api_changes    |-> r.api_changes,
                  commits_count  |-> r.commits_count,
                  treatment      |-> treatment_of(r),
                  post_treatment |-> post_treatment_of(r),
                  treatment_post |-> treatment_post_of(treatment_of(r), post_treatment_of(r)),
                  date_dt        |-> r.date,
                  day_of_week    |-> DayNameOfDate(r.date),
                  log_additions  |-> log1p(r.api_additions),
                  log_deletions  |-> log1p(r.api_deletions),
                  log_changes    |-> log1p(r.api_changes) ] ]

\* The outcomes difference_in_differences_analysis loops over, in order.
outcomes == << "log_additions", "log_deletions", "log_changes" >>

DidCellEmpty(frame) ==
    \E t \in {0, 1}, p \in {0, 1} :
        \A i \in DOMAIN frame :
            ~(frame[i].treatment = t /\ frame[i].post_treatment = p)

\* ols(formula, data=df).fit() and the coefficient look-ups, with no
\* handler in the loop: on a frame with all four cells the fit is
\* reported; on any other frame the library either returns a fit or
\* raises.
DidOlsOutcomes(frame) ==
    IF DidCellEmpty(frame) THEN {"fitted", "exception"} ELSE {"fitted"}

\* load_and_prepare_data() of one run: italy, france, austria in this
\* order, and the --seven-days-only flag.
InitDid ==
    /\ \E all \in SeqsUpTo(EnrichedRows, MaxCommits) :
         \E i \in 0 .. Len(all), j \in 0 .. Len(all) :
            /\ i <= j
            /\ combined_df = LoadCountry(SubSeq(all, 1, i), "italy")
                               \o LoadCountry(SubSeq(all, i + 1, j), "france")
                               \o LoadCountry(SubSeq(all, j + 1, Len(all)), "austria")
    /\ seven_days_only \in BOOLEAN
    /\ daily_user_stats = <<>>
    /\ fitted = <<>>
    /\ EnrichIdle
    /\ SaveIdle
    /\ solver_calls = 0
    /\ raised = "none"
    /\ pc = "did_prepare"
    /\ italy_commits = <<>>
    /\ austria_commits = <<>>
    /\ france_commits = <<>>
    /\ all_commits = <<>>
    /\ df_counts = <<>>
    /\ df_user_day = <<>>
    /\ df_analysis = <<>>
    /\ model_count = "unset"
    /\ model_prob = "unset"
    /\ FetchIdle
    /\ SampleIdle
    /\ UpdateIdle

\* df = prepare_did_variables(df, seven_days_only=args.seven_days_only)
PrepareDidVariables ==
    /\ pc = "did_prepare"
    /\ daily_user_stats' = PreparedFrame(combined_df, seven_days_only)
    /\ pc' = "did_fit"
    /\ UNCHANGED <<combined_df, seven_days_only, fitted, solver_calls, raised>>
    /\ UNCHANGED outsideDid

\* One iteration of the loop over the outcomes that returns a fit.
FitOutcome ==
    /\ pc = "did_fit"
    /\ Len(fitted) < Len(outcomes)
    /\ "fitted" \in DidOlsOutcomes(daily_user_stats)
    /\ solver_calls' = solver_calls + 1
    /\ fitted' = Append(fitted, outcomes[Len(fitted) + 1])
    /\ UNCHANGED <<combined_df, seven_days_only, daily_user_stats, raised, pc>>
    /\ UNCHANGED outsideDid

\* One iteration in which the fit or a coefficient look-up raises: main
\* prints the error and re-raises it.
FitOutcomeRaises ==
    /\ pc = "did_fit"
    /\ Len(fitted) < Len(outcomes)
    /\ "exception" \in DidOlsOutcomes(daily_user_stats)
    /\ solver_calls' = solver_calls + 1
    /\ raised' = "Exception"
    /\ pc' = "crashed"
    /\ UNCHANGED <<combined_df, seven_days_only, daily_user_stats, fitted>>
    /\ UNCHANGED outsideDid

\* The loop is over: "ANALYSIS COMPLETE!".
AnalysisComplete ==
    /\ pc = "did_fit"
    /\ Len(fitted) = Len(outcomes)
    /\ pc' = "did_done"
    /\ UNCHANGED <<combined_df, seven_days_only, daily_user_stats, fitted,
                   solver_calls, raised>>
    /\ UNCHANGED outsideDid

NextDid ==
    \/ PrepareDidVariables
    \/ FitOutcome
    \/ FitOutcomeRaises
    \/ AnalysisComplete

SpecDid == InitDid /\ [][NextDid]_vars

-----------------------------------------------------------------------------
(* analysis-all-data.py on the five events of the two-user scenario *)

\* Hours of the day the scenario events are given in the files.
ScenarioHours == {0, 10, 23}

\* User A (ann) of country X has three commits on 2023-03-30 and one on
\* 2023-04-02, user B (bob) of country Y has one commit on 2023-03-30; a
\* country is the file the events are read from.
ScenarioFile(country, X, Y, h) ==
    IF country = X
      THEN << [username |-> "ann", event_timestamp |-> Instant(<<2023, 3, 30>>, h[1])],
              [username |-> "ann", event_timestamp |-> Instant(<<2023, 3, 30>>, h[2])],
              [username |-> "ann", event_timestamp |-> Instant(<<2023, 3, 30>>, h[3])],
              [username |-> "ann", event_timestamp |-> Instant(<<2023, 4, 2>>, h[4])] >>
    ELSE IF country = Y
      THEN << [username |-> "bob", event_timestamp |-> Instant(<<2023, 3, 30>>, h[5])] >>
    ELSE << >>

InitScenario ==
    /\ \E X \in {"Italy", "Austria", "France"}, Y \in {"Italy", "Austria", "France"},
          h \in [1 .. 5 -> ScenarioHours] :
            /\ X # Y
            /\ italy_commits = ScenarioFile("Italy", X, Y, h)
            /\ austria_commits = ScenarioFile("Austria", X, Y, h)
            /\ france_commits = ScenarioFile("France", X, Y, h)
    /\ all_commits = <<>>
    /\ df_counts = <<>>
    /\ df_user_day = <<>>
    /\ df_analysis = <<>>
    /\ model_count = "unset"
    /\ model_prob = "unset"
    /\ solver_calls = 0
    /\ raised = "none"
    /\ pc = "prepare"
    /\ combined_df = <<>>
    /\ seven_days_only = FALSE
    /\ daily_user_stats = <<>>
    /\ fitted = <<>>
    /\ EnrichIdle
    /\ SaveIdle
    /\ FetchIdle
    /\ SampleIdle
    /\ UpdateIdle

\* The steps of the script a run on the scenario files takes: the files
\* are not empty and the run ends at the sample print.
NextScenario ==
    \/ PrepareData
    \/ CreateGrid
    \/ PrintSample

SpecScenario == InitScenario /\ [][NextScenario]_vars

-----------------------------------------------------------------------------
(* scripts/enrich_commit_samples.py: one call of enrich_sample_file *)

\* Largest number of rows of the sample file.
MaxSampleRows == 3

\* commit_sha cells of a sample CSV: a sha, a sha with blanks around it, a
\* blank cell and an empty cell (read as NaN).
CommitShas == {"c0ffee", " c0ffee ", "   ", NULL}

SampleRows == [commit_sha : CommitShas, repository_name : {"octo/repo"}]

\* commit_sha.strip()
sha_strip(sha) ==
    IF sha = "   " THEN "" ELSE IF sha = " c0ffee " THEN "c0ffee" ELSE sha

\* Variant: only a missing commit_sha is invalid.
invalid_sha_missing(sha) == sha = NULL

\* pd.isna(commit_sha) or not isinstance(commit_sha, str) or
\* commit_sha.strip() == ""
invalid_sha(sha) == sha = NULL \/ sha_strip(sha) = ""

\* What GET /rate_limit can do: answer 200, answer another status, raise.
RateLimitResponses == {"200", "non200", "exception"}

\* check_rate_limit: the pair (remaining, reset) on 200, the pair
\* (None, None) from the except branch, and no return statement (None) on
\* a status other than 200.
check_rate_limit(resp) ==
    IF resp = "200" THEN <<"remaining", "reset">>
    ELSE IF resp = "exception" THEN <<NULL, NULL>>
    ELSE <<>>

\* remaining, reset_time = fetcher.check_rate_limit()
unpacks(value) == Len(value) = 2

\* What a GET of a commit can do: 200 with a commit body, 200 with an
\* empty body, 403 with X-RateLimit-Remaining "0" and a reset header that
\* is an integer or is not one, another 403, 404, 500, or raise.
HttpOutcomes == {"200", "200_empty", "403_reset", "403_badreset", "403", "404",
                 "500", "exception"}

\* Line totals over the files of a commit body.
CommitBodies == { <<0, 0, 0>>, <<3, 1, 4>> }

\* Variant: a second GET after every 403, without waiting.
fetch_commit_details_eager(r1, r2, body) ==
    IF r1 = "exception"
      THEN [commit_data |-> <<>>, requests |-> 1, waited |-> FALSE]
    ELSE LET retry == r1 \in {"403_reset", "403_badreset", "403"}
             resp  == IF retry THEN r2 ELSE r1
         IN  [ commit_data |-> IF resp = "200" THEN body ELSE <<>>,
               requests    |-> IF retry THEN 2 ELSE 1,
               waited      |-> FALSE ]

\* fetch_commit_details(commit_sha, repository_name) when the first GET
\* does r1, a second GET would do r2 and a 200 carries body: the commit
\* data (<<>> for None or an empty body), the number of GETs sent and
\* whether the call waited for the rate-limit reset.
fetch_commit_details(r1, r2, body) ==
    IF r1 \in {"exception", "403_badreset"}
      THEN [commit_data |-> <<>>, requests |-> 1, waited |-> FALSE]
    ELSE LET retry == r1 = "403_reset"
             resp  == IF retry THEN r2 ELSE r1
         IN  [ commit_data |-> IF resp = "200" THEN body ELSE <<>>,
               requests    |-> IF retry THEN 2 ELSE 1,
               waited      |-> retry ]

\* What one call of fetch_commit_details for row idx did: the first
\* answer, the number of GETs, whether it waited for the reset, and
\* whether it returned commit data or None.
LogEntry(idx, r1, res) ==
    [ row |-> idx, first |-> r1, requests |-> res.requests, waited |-> res.waited,
      returned |-> IF res.commit_data # <<>> THEN "data" ELSE "None" ]

\* extract_commit_stats(commit_data): the line totals of the commit.
extract_commit_stats(commit_data) ==
    [ api_additions |-> commit_data[1], api_deletions |-> commit_data[2],
      api_changes |-> commit_data[3] ]

\* df.head(max_commits) when max_commits is given (0 stands for None).
head(df, n) == IF n = 0 \/ n >= Len(df) THEN df ELSE SubSeq(df, 1, n)

\* for col in new_columns: df[col] = None
InitColumns(df) ==
    [ i \in DOMAIN df |->
        [ commit_sha |-> df[i].commit_sha, repository_name |-> df[i].repository_name,
          api_additions |-> NaN, api_deletions |-> NaN, api_changes |-> NaN,
          api_fetch_status |-> NULL ] ]

\* df.at[idx, ...] = ... for the status and, after a fetch, the totals.
SetRow(df, idx, status, stats) ==
    [ df EXCEPT ![idx] =
        [ commit_sha |-> df[idx].commit_sha,
          repository_name |-> df[idx].repository_name,
          api_additions |-> stats.api_additions,
          api_deletions |-> stats.api_deletions,
          api_changes |-> stats.api_changes,
          api_fetch_status |-> status ] ]

\* The input file, the --max-commits option, whether GITHUB_TOKEN is set
\* and whether the file has the columns repository_name and commit_sha.
InitEnrich ==
    /\ sample_df \in SeqsUpTo(SampleRows, MaxSampleRows)
    /\ max_commits \in {0, 1, 2}
    /\ github_token \in BOOLEAN
    /\ required_cols \in BOOLEAN
    /\ processed = 0
    /\ successful = 0
    /\ failed = 0
    /\ http_requests = 0
    /\ fetch_log = <<>>
    /\ output_file = <<>>
    /\ reported = <<>>
    /\ raised = "none"
    /\ pc = "enrich_start"
    /\ solver_calls = 0
    /\ italy_commits = <<>>
    /\ austria_commits = <<>>
    /\ france_commits = <<>>
    /\ all_commits = <<>>
    /\ df_counts = <<>>
    /\ df_user_day = <<>>
    /\ df_analysis = <<>>
    /\ model_count = "unset"
    /\ model_prob = "unset"
    /\ combined_df = <<>>
    /\ seven_days_only = FALSE
    /\ daily_user_stats = <<>>
    /\ fitted = <<>>
    /\ SaveIdle
    /\ FetchIdle
    /\ SampleIdle
    /\ UpdateIdle

\* Lines 120-155: read the file, check the columns, create the fetcher,
\* check the rate limit, cut to max_commits, add the api_ columns.
EnrichStart ==
    /\ pc = "enrich_start"
    /\ \E rl \in RateLimitResponses :
         IF ~required_cols
           THEN /\ raised' = "ValueError" /\ pc' = "crashed"
                /\ UNCHANGED sample_df
         ELSE IF ~github_token
           THEN /\ raised' = "EnvironmentError" /\ pc' = "crashed"
                /\ UNCHANGED sample_df
         ELSE IF ~unpacks(check_rate_limit(rl))
           THEN /\ raised' = "TypeError" /\ pc' = "crashed"
                /\ UNCHANGED sample_df
         ELSE /\ sample_df' = InitColumns(head(sample_df, max_commits))
              /\ pc' = "enrich_loop"
              /\ UNCHANGED raised
    /\ UNCHANGED <<max_commits, github_token, required_cols, processed, successful,
                   failed, http_requests, fetch_log, output_file, reported,
                   solver_calls>>
    /\ UNCHANGED outsideEnrich

\* Variant: an iteration whose failed fetch raises out of the loop
\* instead of being recorded in the row.
ProcessRowRaising ==
    /\ pc = "enrich_loop"
    /\ processed < Len(sample_df)
    /\ processed' = processed + 1
    /\ \E r1 \in HttpOutcomes, r2 \in HttpOutcomes, body \in CommitBodies :
         LET idx == processed + 1
             row == sample_df[idx]
             res == fetch_commit_details(r1, r2, body)
         IN  IF invalid_sha(row.commit_sha)
               THEN /\ sample_df' = SetRow(sample_df, idx, "invalid_sha", row)
                    /\ failed' = failed + 1
                    /\ UNCHANGED <<successful, http_requests, fetch_log, raised, pc>>
             ELSE IF res.commit_data # <<>>
               THEN /\ sample_df' = SetRow(sample_df, idx, "success",
                                           extract_commit_stats(res.commit_data))
                    /\ successful' = successful + 1
                    /\ http_requests' = http_requests + res.requests
                    /\ fetch_log' = Append(fetch_log, LogEntry(idx, r1, res))
                    /\ UNCHANGED <<failed, raised, pc>>
             ELSE /\ sample_df' = SetRow(sample_df, idx, "failed", row)
                  /\ failed' = failed + 1
                  /\ http_requests' = http_requests + res.requests
                  /\ fetch_log' = Append(fetch_log, LogEntry(idx, r1, res))
                  /\ raised' = "RuntimeError"
                  /\ pc' = "crashed"
                  /\ UNCHANGED successful
    /\ UNCHANGED <<max_commits, github_token, required_cols, output_file, reported,
                   solver_calls>>
    /\ UNCHANGED outsideEnrich

\* One iteration of the loop over df.iterrows() (lines 157-196).
ProcessRow ==
    /\ pc = "enrich_loop"
    /\ processed < Len(sample_df)
    /\ processed' = processed + 1
    /\ \E rl \in RateLimitResponses, r1 \in HttpOutcomes, r2 \in HttpOutcomes,
          body \in CommitBodies :
         LET idx == processed + 1
             row == sample_df[idx]
             res == fetch_commit_details(r1, r2, body)
         IN  IF idx % 100 = 0 /\ ~unpacks(check_rate_limit(rl))
               THEN /\ raised' = "TypeError" /\ pc' = "crashed"
                    /\ UNCHANGED <<sample_df, successful, failed, http_requests, fetch_log>>
             ELSE IF invalid_sha(row.commit_sha)
               THEN /\ sample_df' = SetRow(sample_df, idx, "invalid_sha", row)
                    /\ failed' = failed + 1
                    /\ UNCHANGED <<successful, http_requests, fetch_log, raised, pc>>
             ELSE IF res.commit_data # <<>>
               THEN /\ sample_df' = SetRow(sample_df, idx, "success",
                                           extract_commit_stats(res.commit_data))
                    /\ successful' = successful + 1
                    /\ http_requests' = http_requests + res.requests
                    /\ fetch_log' = Append(fetch_log, LogEntry(idx, r1, res))
                    /\ UNCHANGED <<failed, raised, pc>>
             ELSE /\ sample_df' = SetRow(sample_df, idx, "failed", row)
                  /\ failed' = failed + 1
                  /\ http_requests' = http_requests + res.requests
                  /\ fetch_log' = Append(fetch_log, LogEntry(idx, r1, res))
                  /\ UNCHANGED <<successful, raised, pc>>
    /\ UNCHANGED <<max_commits, github_token, required_cols, output_file, reported,
                   solver_calls>>
    /\ UNCHANGED outsideEnrich

\* After the loop (lines 199-206): df.to_csv(output_file), the counts are
\* printed, then the success rate successful/processed, a division by
\* zero when the file had no rows.
FinishBatch ==
    /\ pc = "enrich_loop"
    /\ processed = Len(sample_df)
    /\ output_file' = <<sample_df>>
    /\ reported' = <<processed, successful, failed>>
    /\ IF processed = 0
         THEN raised' = "ZeroDivisionError" /\ pc' = "crashed"
         ELSE raised' = raised /\ pc' = "enrich_done"
    /\ UNCHANGED <<sample_df, max_commits, github_token, required_cols, processed,
                   successful, failed, http_requests, fetch_log, solver_calls>>
    /\ UNCHANGED outsideEnrich

NextEnrich ==
    \/ EnrichStart
    \/ ProcessRow
    \/ FinishBatch

SpecEnrich == InitEnrich /\ [][NextEnrich]_vars

-----------------------------------------------------------------------------
(* fetch_commit_events.py: save_results and its commit-message clean-up *)

\* Largest length of a commit message and largest number of events.
MaxMessageLen == 4

MaxEventRows == 2

\* A message is a sequence of characters: a letter, a blank, a newline, a
\* carriage return or a tab.
Chars == {"a", " ", "\n", "\r", "\t"}

\* The characters of Chars that the pattern \s and str.strip() take for
\* whitespace.
Whitespace == {" ", "\n", "\r", "\t"}

\* A missing commit_message cell (None / NaN).
MissingMessage == <<NULL>>

Messages == SeqsUpTo(Chars, MaxMessageLen) \cup {MissingMessage}

\* Rows of commit_events_df, with a commit_message column or without one.
EventRows == [commit_sha : {"c0ffee"}, commit_message : Messages]

EventRowsNoMessage == [commit_sha : {"c0ffee"}]

\* .fillna('').astype(str)
fillna_empty(m) == IF m = MissingMessage THEN <<>> ELSE m

\* .str.replace(old, new, regex=False) for one-character strings
str_replace(m, old, new) == [ i \in DOMAIN m |-> IF m[i] = old THEN new ELSE m[i] ]

RECURSIVE lstrip(_)
\* The message without its leading whitespace.
lstrip(m) ==
    IF m # <<>> /\ Head(m) \in Whitespace THEN lstrip(Tail(m)) ELSE m

RECURSIVE rstrip(_)
\* The message without its trailing whitespace.
rstrip(m) ==
    IF m # <<>> /\ m[Len(m)] \in Whitespace THEN rstrip(SubSeq(m, 1, Len(m) - 1)) ELSE m

RECURSIVE collapse_whitespace(_)
\* .str.replace(r'\s+', ' ', regex=True): every maximal run of whitespace
\* becomes one blank.
collapse_whitespace(m) ==
    IF m = <<>> THEN <<>>
    ELSE IF Head(m) \in Whitespace THEN <<" ">> \o collapse_whitespace(lstrip(m))
    ELSE <<Head(m)>> \o collapse_whitespace(Tail(m))

\* Variant: whitespace removed at the start only.
str_strip_left(m) == lstrip(m)

\* .str.strip()
str_strip(m) == rstrip(lstrip(m))

\* The clean-up of one message, in the order of the statements.
clean_message(m) ==
    str_strip(collapse_whitespace(
        str_replace(str_replace(fillna_empty(m), "\n", " "), "\r", " ")))

\* The frame save_results writes with to_csv.
CleanedFrame(df) ==
    [ i \in DOMAIN df |->
        IF "commit_message" \in DOMAIN df[i]
          THEN [ commit_sha |-> df[i].commit_sha,
                 commit_message |-> clean_message(df[i].commit_message) ]
          ELSE df[i] ]

\* The frame handed to save_results.
InitSave ==
    /\ \E n \in 0 .. MaxEventRows, has_message \in BOOLEAN :
          commit_events_df \in [1 .. n -> IF has_message THEN EventRows
                                                        ELSE EventRowsNoMessage]
    /\ commit_events_file = <<>>
    /\ pc = "save"
    /\ raised = "none"
    /\ solver_calls = 0
    /\ italy_commits = <<>>
    /\ austria_commits = <<>>
    /\ france_commits = <<>>
    /\ all_commits = <<>>
    /\ df_counts = <<>>
    /\ df_user_day = <<>>
    /\ df_analysis = <<>>
    /\ model_count = "unset"
    /\ model_prob = "unset"
    /\ combined_df = <<>>
    /\ seven_days_only = FALSE
    /\ daily_user_stats = <<>>
    /\ fitted = <<>>
    /\ EnrichIdle
    /\ FetchIdle
    /\ SampleIdle
    /\ UpdateIdle

\* save_results: the messages are cleaned on a copy of the frame and the
\* copy is written; the caller's frame is not assigned to.
SaveResults ==
    /\ pc = "save"
    /\ commit_events_file' = <<CleanedFrame(commit_events_df)>>
    /\ pc' = "saved"
    /\ UNCHANGED <<commit_events_df, raised, solver_calls>>
    /\ UNCHANGED outsideSave

NextSave == SaveResults

SpecSave == InitSave /\ [][NextSave]_vars

-----------------------------------------------------------------------------
(* fetch_commit_data.py: one call of fetch_commit_data *)

\* A token argument or GITHUB_TOKEN value: absent (None / unset), the
\* empty string, or a token.
Tokens == {NULL, "", "ghp_token"}

RepositoryNames == {"octo/repo", "octorepo", ""}

\* Status codes of the answer; 0 stands for requests.get raising (no
\* answer).
StatusCodes == {0, 200, 301, 401, 403, 404, 500}

\* Values of the X-RateLimit-Remaining and X-RateLimit-Reset headers
\* (NULL: header absent).
RemainingHeaders == {NULL, "0", "42"}

ResetHeaders == {NULL, "1700000000", "soon"}

Responses == [status_code : StatusCodes, remaining : RemainingHeaders,
              reset : ResetHeaders]

\* token = token or os.getenv("GITHUB_TOKEN")
effective_token(tok, env) == IF tok \notin {NULL, ""} THEN tok ELSE env

\* "/" in repository_full_name
has_slash(name) == name = "octo/repo"

\* Variant: the repository name is looked at before the token.
validate_repo_first(tok, env, name) ==
    IF ~has_slash(name) THEN "ValueError"
    ELSE IF effective_token(tok, env) \in {NULL, ""} THEN "EnvironmentError"
    ELSE "ok"

\* The two checks before the request, in the order of the statements.
validate(tok, env, name) ==
    IF effective_token(tok, env) \in {NULL, ""} THEN "EnvironmentError"
    ELSE IF ~has_slash(name) THEN "ValueError"
    ELSE "ok"

\* int(reset) succeeds
is_integer(header) == header = "1700000000"

\* Variant: the rate-limit branch taken only for an integer reset header.
rate_limited_integer(r) ==
    r.remaining = "0" /\ r.reset # NULL /\ is_integer(r.reset)

\* remaining == "0" and reset is not None
rate_limited(r) == r.remaining = "0" /\ r.reset # NULL

Raise(type, message) == [kind |-> "raise", value |-> type, message |-> message]

\* The statements after requests.get, for an answer r.
handle_response(r) ==
    IF r.status_code = 0 THEN Raise("RequestException", "none")
    ELSE IF r.status_code = 200
      THEN [kind |-> "return", value |-> "commit", message |-> "none"]
    ELSE IF r.status_code = 404 THEN Raise("ValueError", "not found")
    ELSE IF r.status_code \in {401, 403}
      THEN IF rate_limited(r)
             THEN IF is_integer(r.reset)
                    THEN Raise("RuntimeError", "Rate limit exceeded, resets in")
                    ELSE Raise("RuntimeError", "Rate limit exceeded (403)")
             ELSE Raise("RuntimeError", "Authentication or permission error")
    ELSE Raise("RuntimeError", "GitHub API request failed")

\* The arguments, the environment and what the server answers.
InitFetch ==
    /\ token \in Tokens
    /\ env_token \in Tokens
    /\ repository_full_name \in RepositoryNames
    /\ response \in Responses
    /\ fetch_outcome = [kind |-> "none", value |-> "none", message |-> "none"]
    /\ requests_get = 0
    /\ pc = "fetch"
    /\ raised = "none"
    /\ solver_calls = 0
    /\ italy_commits = <<>>
    /\ austria_commits = <<>>
    /\ france_commits = <<>>
    /\ all_commits = <<>>
    /\ df_counts = <<>>
    /\ df_user_day = <<>>
    /\ df_analysis = <<>>
    /\ model_count = "unset"
    /\ model_prob = "unset"
    /\ combined_df = <<>>
    /\ seven_days_only = FALSE
    /\ daily_user_stats = <<>>
    /\ fitted = <<>>
    /\ EnrichIdle
    /\ SaveIdle
    /\ SampleIdle
    /\ UpdateIdle

\* fetch_commit_data(commit_sha, repository_full_name, token)
FetchCommitData ==
    /\ pc = "fetch"
    /\ LET checked == validate(token, env_token, repository_full_name)
       IN  IF checked # "ok"
             THEN /\ fetch_outcome' = Raise(checked, "none")
                  /\ requests_get' = requests_get
             ELSE /\ fetch_outcome' = handle_response(response)
                  /\ requests_get' = requests_get + 1
    /\ raised' = IF fetch_outcome'.kind = "raise" THEN fetch_outcome'.value ELSE raised
    /\ pc' = "fetched"
    /\ UNCHANGED <<token, env_token, repository_full_name, response, solver_calls>>
    /\ UNCHANGED outsideFetch

NextFetch == FetchCommitData

SpecFetch == InitFetch /\ [][NextFetch]_vars

-----------------------------------------------------------------------------
(* scripts/create_commit_samples_fast.py: one sample file *)

\* Largest number of commits of the input file in one period.
MaxPeriodCommits == 54

\* Values of --sample-size.
SampleSizes == {1, 51, 100, 101, 105, 107, 1040}

\* Numbers of input rows dated outside 2023-03-18 .. 2023-04-14.
OutsideRows == {0, 3}

\* The (sample_size, period size, total) for which the float product
\* sample_size * (period / total) falls just below the exact quotient, so
\* that int() gives one less (IEEE doubles, periods of 50 to 57 commits).
RoundedBelow == { <<105, 54, 105>>, <<107, 54, 107>>, <<107, 55, 107>>,
                  <<107, 56, 107>>, <<107, 57, 107>> }

\* Variant: the product rounded up.
int_product_up(size, n, total) == (size * n + total - 1) \div total

\* int(sample_size * ratio) with ratio = n / total
int_product(size, n, total) ==
    (size * n) \div total - (IF <<size, n, total>> \in RoundedBelow THEN 1 ELSE 0)

Min(a, b) == IF a <= b THEN a ELSE b

Max(a, b) == IF a >= b THEN a ELSE b

\* min_per_period = max(50, sample_size // 20)
min_per_period(size) == Max(50, size \div 20)

\* Lines 109-133: the sizes of the two samples for periods of b and a
\* commits.
sample_sizes(b, a, size) ==
    IF b < min_per_period(size) \/ a < min_per_period(size)
      THEN [before |-> b, after |-> a]
    ELSE LET total  == b + a
             sb     == Min(b, int_product(size, b, total))
             sa     == Min(a, int_product(size, a, total))
             remaining == size - (sb + sa)
         IN  IF sb + sa < size
               THEN IF b > sb
                      THEN [before |-> sb + Min(remaining, b - sb), after |-> sa]
                    ELSE IF a > sa
                      THEN [before |-> sb, after |-> sa + Min(remaining, a - sa)]
                    ELSE [before |-> sb, after |-> sa]
             ELSE [before |-> sb, after |-> sa]

\* The input file (numbers of rows before 2023-04-01, from it on, and
\* outside the date range) and the sample size.
InitSample ==
    /\ sample_size \in SampleSizes
    /\ before_rows \in 0 .. MaxPeriodCommits
    /\ after_rows \in 0 .. MaxPeriodCommits
    /\ outside_rows \in OutsideRows
    /\ sample_before_size = 0
    /\ sample_after_size = 0
    /\ final_sample = <<>>
    /\ pc = "sample_file"
    /\ raised = "none"
    /\ solver_calls = 0
    /\ italy_commits = <<>>
    /\ austria_commits = <<>>
    /\ france_commits = <<>>
    /\ all_commits = <<>>
    /\ df_counts = <<>>
    /\ df_user_day = <<>>
    /\ df_analysis = <<>>
    /\ model_count = "unset"
    /\ model_prob = "unset"
    /\ combined_df = <<>>
    /\ seven_days_only = FALSE
    /\ daily_user_stats = <<>>
    /\ fitted = <<>>
    /\ EnrichIdle
    /\ SaveIdle
    /\ FetchIdle
    /\ UpdateIdle

\* create_representative_sample_optimized: the rows outside the date
\* range are filtered out; without a row left nothing is written;
\* otherwise the two samples are drawn, concatenated, shuffled and
\* written.
CreateSample ==
    /\ pc = "sample_file"
    /\ IF before_rows + after_rows = 0
         THEN UNCHANGED <<sample_before_size, sample_after_size, final_sample>>
         ELSE LET n == sample_sizes(before_rows, after_rows, sample_size)
              IN  /\ sample_before_size' = n.before
                  /\ sample_after_size' = n.after
                  /\ final_sample' = <<n.before + n.after>>
    /\ pc' = "sampled"
    /\ UNCHANGED <<sample_size, before_rows, after_rows, outside_rows, raised,
                   solver_calls>>
    /\ UNCHANGED outsideSample

NextSample == CreateSample

SpecSample == InitSample /\ [][NextSample]_vars

-----------------------------------------------------------------------------
(* scripts/fetch_commit_data.py: fetch_commits_and_update_csv *)

MaxCsvRows == 4

\* The repository whose commits are fetched, and another one of the file.
TopRepository == "octo/repo"

CsvRepositories == {TopRepository, "other/repo"}

\* Rows of the commits CSV as read with dtype=str: an empty commit_sha
\* cell is read as missing.
CsvRows == [repository_name : CsvRepositories, commit_sha : CommitShas]

ChunkSizes == {1, 2, 3}

\* commits_limit: None (the empty tuple), or a number of commits.
CommitLimits == {<<>>, <<0>>, <<1>>, <<2>>, <<3>>}

\* What fetch_commit_data followed by commit_json_to_rows does for one
\* commit: raise, or give one output row per file of the commit.
FilesOfCommit == {0, 2}

FetchResults ==
    { [ok |-> FALSE, files |-> 0] } \cup { [ok |-> TRUE, files |-> n] : n \in FilesOfCommit }

\* Variant: the limit is reached only once it has been passed.
limit_passed(limit, idx) == limit # <<>> /\ idx > limit[1]

\* limit_reached(): commits_limit is not None and commits_idx >= commits_limit
limit_reached(limit, idx) == limit # <<>> /\ idx >= limit[1]

\* The reader has no further chunk after k chunks of the given size.
reader_exhausted(csv, size, k) == k * size >= Len(csv)

\* The positions in the file of the rows of chunk k that belong to the
\* repository: chunk[chunk["repository_name"] == repository_name].
repsitory_commits(csv, size, k) ==
    LET lo == (k - 1) * size + 1
        hi == IF k * size < Len(csv) THEN k * size ELSE Len(csv)
    IN  SelectSeq([ j \in 1 .. (hi - lo + 1) |-> lo + j - 1 ],
                  LAMBDA i : csv[i].repository_name = TopRepository)

\* commit_json_to_rows(row, commit_json): one row per file, with the
\* commit_sha cell of the input row.
commit_json_to_rows(csv, i, files) ==
    [ f \in 1 .. files |->
        [ repository_name |-> csv[i].repository_name,
          commit_sha |-> csv[i].commit_sha, commit |-> i, filename |-> f ] ]

\* A commits file, a chunk size and a limit. No file has no rows; of a
\* file without the two columns only the number of rows is modelled.
InitUpdate ==
    /\ \E n \in 0 .. MaxCsvRows : commits_csv \in [1 .. n -> CsvRows]
    /\ csv_state \in {"missing", "no_columns", "ok"}
    /\ csv_state = "missing" => commits_csv = <<>>
    /\ csv_state = "no_columns" =>
          \A i \in DOMAIN commits_csv :
              commits_csv[i] = [repository_name |-> TopRepository, commit_sha |-> NULL]
    /\ chunksize \in ChunkSizes
    /\ commits_limit \in CommitLimits
    /\ commits_idx = 0
    /\ chunk_idx = 0
    /\ row_pos = 0
    /\ write_cache = <<>>
    /\ first_write = FALSE
    /\ tmpf = <<>>
    /\ changes_csv = <<>>
    /\ attempts = <<>>
    /\ pc = "csv_start"
    /\ raised = "none"
    /\ solver_calls = 0
    /\ italy_commits = <<>>
    /\ austria_commits = <<>>
    /\ france_commits = <<>>
    /\ all_commits = <<>>
    /\ df_counts = <<>>
    /\ df_user_day = <<>>
    /\ df_analysis = <<>>
    /\ model_count = "unset"
    /\ model_prob = "unset"
    /\ combined_df = <<>>
    /\ seven_days_only = FALSE
    /\ daily_user_stats = <<>>
    /\ fitted = <<>>
    /\ EnrichIdle
    /\ SaveIdle
    /\ FetchIdle
    /\ SampleIdle

\* Lines 131-169: FileNotFoundError without the commits CSV; otherwise the
\* temporary file is created, first_write = True, commits_idx = 0 and the
\* chunked reader is opened.
OpenCommitsCsv ==
    /\ pc = "csv_start"
    /\ IF csv_state = "missing"
         THEN /\ raised' = "FileNotFoundError" /\ pc' = "crashed"
              /\ UNCHANGED first_write
         ELSE /\ first_write' = TRUE
              /\ pc' = "csv_chunk"
              /\ UNCHANGED raised
    /\ UNCHANGED <<commits_csv, csv_state, chunksize, commits_limit, commits_idx,
                   chunk_idx, row_pos, write_cache, tmpf, changes_csv, attempts,
                   solver_calls>>
    /\ UNCHANGED outsideUpdate

\* Head of the loop over the chunks (lines 171-187): the loop ends when
\* the reader is exhausted or the limit is reached; ValueError when the
\* chunk lacks the two columns; otherwise the rows of the repository are
\* selected and write_cache is emptied.
NextChunk ==
    /\ pc = "csv_chunk"
    /\ IF reader_exhausted(commits_csv, chunksize, chunk_idx)
            \/ limit_reached(commits_limit, commits_idx)
         THEN /\ pc' = "csv_move"
              /\ UNCHANGED <<chunk_idx, row_pos, write_cache, raised>>
       ELSE IF csv_state = "no_columns"
         THEN /\ raised' = "ValueError" /\ pc' = "crashed"
              /\ chunk_idx' = chunk_idx + 1
              /\ UNCHANGED <<row_pos, write_cache>>
       ELSE /\ chunk_idx' = chunk_idx + 1
            /\ row_pos' = 0
            /\ write_cache' = <<>>
            /\ pc' = "csv_row"
            /\ UNCHANGED raised
    /\ UNCHANGED <<commits_csv, csv_state, chunksize, commits_limit, commits_idx,
                   first_write, tmpf, changes_csv, attempts, solver_calls>>
    /\ UNCHANGED outsideUpdate

\* One iteration of the loop over the rows of the repository (lines
\* 190-209): a row without commit_sha is skipped; otherwise commits_idx is
\* incremented, the commit is fetched and its rows are added to
\* write_cache, or the exception of the fetch is printed.
FetchRow ==
    /\ pc = "csv_row"
    /\ row_pos < Len(repsitory_commits(commits_csv, chunksize, chunk_idx))
    /\ ~limit_reached(commits_limit, commits_idx)
    /\ row_pos' = row_pos + 1
    /\ LET i == repsitory_commits(commits_csv, chunksize, chunk_idx)[row_pos + 1]
       IN  IF invalid_sha(commits_csv[i].commit_sha)
             THEN UNCHANGED <<commits_idx, write_cache, attempts>>
           ELSE /\ commits_idx' = commits_idx + 1
                /\ \E result \in FetchResults :
                     /\ attempts' = Append(attempts, [commit |-> i, result |-> result])
                     /\ write_cache' =
                          IF ~result.ok THEN write_cache
                          ELSE write_cache
                                 \o commit_json_to_rows(commits_csv, i, result.files)
    /\ UNCHANGED <<commits_csv, csv_state, chunksize, commits_limit, chunk_idx,
                   first_write, tmpf, changes_csv, raised, pc, solver_calls>>
    /\ UNCHANGED outsideUpdate

\* After the rows of the chunk, or at the break of the row loop (lines
\* 211-216): write_cache is written to the temporary file, replacing it
\* at the first write and appended afterwards.
WriteChunk ==
    /\ pc = "csv_row"
    /\ \/ row_pos >= Len(repsitory_commits(commits_csv, chunksize, chunk_idx))
       \/ limit_reached(commits_limit, commits_idx)
    /\ tmpf' = IF first_write THEN write_cache ELSE tmpf \o write_cache
    /\ first_write' = FALSE
    /\ pc' = "csv_chunk"
    /\ UNCHANGED <<commits_csv, csv_state, chunksize, commits_limit, commits_idx,
                   chunk_idx, row_pos, write_cache, changes_csv, attempts, raised,
                   solver_calls>>
    /\ UNCHANGED outsideUpdate

\* shutil.move(tmpf_name, output_path) (line 219).
MoveToOutput ==
    /\ pc = "csv_move"
    /\ changes_csv' = <<tmpf>>
    /\ pc' = "csv_done"
    /\ UNCHANGED <<commits_csv, csv_state, chunksize, commits_limit, commits_idx,
                   chunk_idx, row_pos, write_cache, first_write, tmpf, attempts,
                   raised, solver_calls>>
    /\ UNCHANGED outsideUpdate

NextUpdate ==
    \/ OpenCommitsCsv
    \/ NextChunk
    \/ FetchRow
    \/ WriteChunk
    \/ MoveToOutput

SpecUpdate == InitUpdate /\ [][NextUpdate]_vars

-----------------------------------------------------------------------------
(* What the input says, independently of the frames the run builds *)

\* An input event with a username and a timestamp (the country is set by
\* the script and is never missing).
WellFormed(e) == e.username # NULL /\ e.event_timestamp # NaT

WellFormedEvents == { i \in DOMAIN all_commits : WellFormed(all_commits[i]) }

\* The cohort: distinct (username, country) pairs of the events.
Cohort ==
    { <<all_commits[i].username, all_commits[i].country>> : i \in WellFormedEvents }

\* The calendar: distinct dates of the events.
Calendar == { all_commits[i].event_timestamp \div 24 : i \in WellFormedEvents }

\* Number of input events of one user-day.
EventsOn(u, c, d) ==
    Cardinality({ i \in WellFormedEvents :
                    /\ all_commits[i].username = u
                    /\ all_commits[i].country = c
                    /\ all_commits[i].event_timestamp \div 24 = d })

\* Rows of a frame with a given (username, country, date) key.
RowsOf(frame, u, c, d) ==
    { i \in DOMAIN frame :
        frame[i].username = u /\ frame[i].country = c /\ frame[i].date = d }

PanelBuilt ==
    \/ pc \in {"sample", "window", "fit_count", "fit_prob", "done"}
    \/ pc = "crashed" /\ raised = "ValueError"

WindowFiltered == pc \in {"fit_count", "fit_prob", "done"}

FitAttempted == pc \in {"fit_prob", "done"}

-----------------------------------------------------------------------------
(* Claims *)

\* C1: the user-day panel has exactly |cohort| x |calendar| rows, exactly
\* one row for every (username, country, date) key of cohort x calendar and
\* no row with any other key.
C1_GridSize ==
    PanelBuilt =>
      LET cohort == Cohort
          calendar == Calendar
      IN
        /\ Len(df_user_day) = Cardinality(cohort) * Cardinality(calendar)
        /\ \A uc \in cohort, d \in calendar :
               Cardinality(RowsOf(df_user_day, uc[1], uc[2], d)) = 1
        /\ \A i \in DOMAIN df_user_day :
               /\ <<df_user_day[i].username, df_user_day[i].country>> \in cohort
               /\ df_user_day[i].date \in calendar

\* C1 witness: a panel of several users and several dates in which one
\* username occurs in two countries.
C1_Witness ==
    /\ PanelBuilt
    /\ Cardinality(Calendar) >= 2
    /\ Cardinality(Cohort) >= 3
    /\ \E a \in Cohort, b \in Cohort : a[1] = b[1] /\ a[2] # b[2]

\* C2: every cohort member has, for every calendar date on which it has no
\* event, a panel row with commit_count = 0; none of these user-days is
\* absent.
C2_ZeroRows ==
    PanelBuilt =>
      LET cohort == Cohort
          calendar == Calendar
      IN
        \A uc \in cohort, d \in calendar :
            EventsOn(uc[1], uc[2], d) = 0 =>
                /\ RowsOf(df_user_day, uc[1], uc[2], d) # {}
                /\ \A i \in RowsOf(df_user_day, uc[1], uc[2], d) :
                       df_user_day[i].commit_count = 0

\* C2 witness: a calendar of three dates and a user whose only events are
\* on the first of them.
C2_Witness ==
    /\ PanelBuilt
    /\ Cardinality(Calendar) = 3
    /\ \E uc \in Cohort :
         \A d \in Calendar :
            (EventsOn(uc[1], uc[2], d) > 0) <=> (\A e \in Calendar : d <= e)

\* C3: a panel row is in the analysis frame iff its date is before the
\* policy start or within policy start .. policy start + window_length - 1;
\* with policy start 2023-04-01 and window length 7 the rows of 2023-03-31
\* and 2023-04-07 are kept and the rows of 2023-04-08 are dropped.
C3_WindowPartition ==
    WindowFiltered =>
        LET start == to_datetime(policy_start_date)
            Kept(d) == d < start \/ (start <= d /\ d <= start + window_length - 1)
        IN  /\ \A i \in DOMAIN df_user_day :
                   LET r == df_user_day[i]
                   IN  Cardinality(RowsOf(df_analysis, r.username, r.country, r.date))
                         = IF Kept(r.date) THEN 1 ELSE 0
            /\ \A j \in DOMAIN df_analysis :
                   LET a == df_analysis[j]
                   IN  \E i \in DOMAIN df_user_day :
                          /\ df_user_day[i].username = a.username
                          /\ df_user_day[i].country = a.country
                          /\ df_user_day[i].date = a.date
                          /\ df_user_day[i].day_of_week = a.day_of_week
                          /\ df_user_day[i].commit_count = a.commit_count
                          /\ df_user_day[i].did_commit = a.did_commit
            /\ policy_start_date = <<2023, 4, 1>> /\ window_length = 7 =>
                   \A i \in DOMAIN df_user_day :
                       LET r == df_user_day[i]
                           n == Cardinality(RowsOf(df_analysis, r.username, r.country, r.date))
                       IN  /\ r.date = to_datetime(<<2023, 3, 31>>) => n = 1
                           /\ r.date = to_datetime(<<2023, 4, 7>>) => n = 1
                           /\ r.date = to_datetime(<<2023, 4, 8>>) => n = 0

\* C3 witness: a filtered panel with rows on 2023-03-31, 2023-04-07 and
\* 2023-04-08.
C3_Witness ==
    /\ WindowFiltered
    /\ { to_datetime(<<2023, 3, 31>>), to_datetime(<<2023, 4, 7>>),
         to_datetime(<<2023, 4, 8>>) }
          \subseteq { df_user_day[i].date : i \in DOMAIN df_user_day }

\* C9: in every panel row commit_count >= 0, did_commit = 1 exactly when
\* commit_count > 0 and did_commit = 0 exactly when commit_count = 0.
C9_DidCommit ==
    PanelBuilt =>
        \A i \in DOMAIN df_user_day :
            /\ df_user_day[i].commit_count >= 0
            /\ df_user_day[i].did_commit \in {0, 1}
            /\ df_user_day[i].did_commit = 1 <=> df_user_day[i].commit_count > 0
            /\ df_user_day[i].did_commit = 0 <=> df_user_day[i].commit_count = 0

\* C9 witness: a panel with a zero row and a row of several commits.
C9_Witness ==
    /\ PanelBuilt
    /\ \E i \in DOMAIN df_user_day : df_user_day[i].commit_count = 0
    /\ \E i \in DOMAIN df_user_day : df_user_day[i].commit_count >= 2

\* C10: the dates of the panel are exactly the dates on which some event
\* of the combined corpus occurred: an unobserved date has no rows even
\* between two observed dates, and every observed date, also one observed
\* for a single user, has a row for every cohort member.
C10_Calendar ==
    PanelBuilt =>
      LET cohort == Cohort
          calendar == Calendar
      IN
        /\ { df_user_day[i].date : i \in DOMAIN df_user_day }
             = IF cohort = {} THEN {} ELSE calendar
        /\ \A d \in calendar, uc \in cohort :
               RowsOf(df_user_day, uc[1], uc[2], d) # {}

\* C10 witness: two observed dates with an unobserved date between them,
\* one of them observed for a single user of a cohort of several.
C10_Witness ==
    /\ PanelBuilt
    /\ Cardinality(Cohort) >= 2
    /\ \E d1 \in Calendar, d2 \in Calendar :
          /\ d1 + 1 < d2
          /\ \A d \in (d1 + 1) .. (d2 - 1) : d \notin Calendar
          /\ Cardinality({ uc \in Cohort : EventsOn(uc[1], uc[2], d1) > 0 }) = 1

\* Some weekday of the frame occurs in one of the treatment/control arms only.
OneArmedWeekday(frame) ==
    \E i \in DOMAIN frame :
        \A j \in DOMAIN frame :
            frame[j].day_of_week = frame[i].day_of_week
              => frame[j].is_treatment = frame[i].is_treatment

\* C5: whenever one of the four treatment x period cells of the analysis
\* frame is empty, fitting fails with InsufficientDataError before the
\* solver is invoked.
C5_EmptyCellRaises ==
    (FitAttempted /\ SomeCellEmpty(df_analysis))
        => (raised = "InsufficientDataError" /\ solver_calls = 0)

\* C6: whenever some weekday occurs in only one of the treatment/control
\* arms of the analysis frame, fitting fails with InsufficientDataError
\* before the solver is invoked.
C6_OneArmedWeekdayRaises ==
    (FitAttempted /\ OneArmedWeekday(df_analysis))
        => (raised = "InsufficientDataError" /\ solver_calls = 0)

\* C7: no run completes with an input event whose username or timestamp is
\* missing unless the event was rejected with MalformedEventError.
C7_MalformedRejected ==
    (pc = "done" /\ \E i \in DOMAIN all_commits : ~WellFormed(all_commits[i]))
        => raised = "MalformedEventError"

\* C8: on empty input the panel is empty and no unhandled exception ends
\* the run; nor does one end the run on a panel of very few rows.
C8_EmptyInputNoCrash ==
    /\ (italy_commits = <<>> /\ austria_commits = <<>> /\ france_commits = <<>>)
          => (raised = "none" /\ (PanelBuilt => df_user_day = <<>>))
    /\ (PanelBuilt /\ Len(df_user_day) < SampleSize) => raised = "none"

DidPrepared == pc \in {"did_fit", "did_done"} \/ (pc = "crashed" /\ raised = "Exception")

\* C4: in every row of the analysis frame treatment_post is 1 exactly when
\* the treatment indicator and the post indicator of that row are both 1,
\* and 0 otherwise.
C4_InteractionIdentity ==
    DidPrepared =>
        \A i \in DOMAIN daily_user_stats :
            LET r == daily_user_stats[i]
            IN  /\ r.treatment_post \in {0, 1}
                /\ r.treatment_post = 1 <=> (r.treatment = 1 /\ r.post_treatment = 1)

\* C4 witness: a prepared frame with a treated post-period row, a treated
\* pre-period row and a control post-period row.
C4_Witness ==
    /\ DidPrepared
    /\ \E i \in DOMAIN daily_user_stats :
          daily_user_stats[i].treatment = 1 /\ daily_user_stats[i].post_treatment = 1
    /\ \E i \in DOMAIN daily_user_stats :
          daily_user_stats[i].treatment = 1 /\ daily_user_stats[i].post_treatment = 0
    /\ \E i \in DOMAIN daily_user_stats :
          daily_user_stats[i].treatment = 0 /\ daily_user_stats[i].post_treatment = 1

\* C11: in every analysis row post_policy is 1 exactly when the date is on
\* or after the policy start date (the start date itself is post), and
\* is_treatment is 1 exactly when the country is Italy; every row of a
\* control country has is_treatment = 0.
C11_Dummies ==
    WindowFiltered =>
        \A i \in DOMAIN df_analysis :
            LET r == df_analysis[i]
            IN  /\ r.post_policy \in {0, 1}
                /\ r.is_treatment \in {0, 1}
                /\ (r.post_policy = 1) <=> (r.date >= to_datetime(policy_start_date))
                /\ (r.is_treatment = 1) <=> (r.country = "Italy")
                /\ r.country \in {"Austria", "France"} => r.is_treatment = 0

\* A filtered frame with an Italian and a control row on the policy start
\* date itself and a row before it.
C11_Witness ==
    /\ WindowFiltered
    /\ \E i, j, k \in DOMAIN df_analysis :
          /\ df_analysis[i].date = to_datetime(policy_start_date)
          /\ df_analysis[i].country = "Italy"
          /\ df_analysis[i].post_policy = 1
          /\ df_analysis[j].date = to_datetime(policy_start_date)
          /\ df_analysis[j].country # "Italy"
          /\ df_analysis[j].is_treatment = 0
          /\ df_analysis[k].post_policy = 0

\* The commits of combined_df that reach the aggregation: fetched, and
\* inside the seven-day period when the flag is set.
AggregatedCommits ==
    { i \in DOMAIN combined_df :
        /\ combined_df[i].api_additions # NaN
        /\ combined_df[i].api_deletions # NaN
        /\ combined_df[i].api_changes # NaN
        /\ seven_days_only => combined_df[i].event_timestamp \div 24 < april_8th }

\* C12: the line-level frame passed to the regression is a complete grid:
\* it has a row for every cohort member and every calendar date, and a
\* user-day without commits has additions = deletions = changes = 0.
C12_LineGridComplete ==
    DidPrepared =>
        LET cohort   == { <<combined_df[i].username, combined_df[i].country>> :
                            i \in AggregatedCommits }
            calendar == { combined_df[i].event_timestamp \div 24 : i \in AggregatedCommits }
        IN  \A m \in cohort, d \in calendar :
               \E n \in DOMAIN daily_user_stats :
                  LET r == daily_user_stats[n]
                  IN  /\ r.username = m[1] /\ r.country = m[2] /\ r.date = d
                      /\ (\A i \in AggregatedCommits :
                             ~(/\ combined_df[i].username = m[1]
                               /\ combined_df[i].country = m[2]
                               /\ combined_df[i].event_timestamp \div 24 = d))
                         => (r.api_additions = 0 /\ r.api_deletions = 0 /\ r.api_changes = 0)

\* C13: on the two-user scenario (policy start 2023-04-01, window of 7
\* days) the panel has 4 rows, 2 users x 2 calendar days, and the run ends
\* with InsufficientDataError raised by the fit of commit_count.
C13_ScenarioInsufficientData ==
    pc \in {"crashed", "done"} =>
        /\ Len(df_user_day) = 4
        /\ raised = "InsufficientDataError"

\* C14: a fit has no side effect on its input: each of the two fits leaves
\* the analysis frame (and the grid) as it found it, so the second fit runs
\* on the frame of the first, and creating the analysis frame leaves the
\* full user-day grid unchanged.
C14_FitsLeaveFrames ==
    [][ /\ pc \in {"fit_count", "fit_prob"} =>
              (df_analysis' = df_analysis /\ df_user_day' = df_user_day)
        /\ pc = "window" => df_user_day' = df_user_day ]_vars

\* Both fits have run on a frame that the window filter made smaller than
\* the grid.
C14_Witness ==
    /\ pc = "done"
    /\ solver_calls = 2
    /\ df_analysis # <<>>
    /\ Len(df_analysis) < Len(df_user_day)

\* A grid size standing for the configured safety threshold of the grid.
GridSafetyThreshold == 8

\* C16: when |cohort| x |calendar| exceeds the safety threshold, the grid
\* construction fails with GridTooLargeError before the cross product is
\* materialised, so no grid larger than the threshold is ever built.
C16_GridTooLarge ==
    LET cohort   == Cohort
        calendar == Calendar
    IN  (pc \notin {"prepare", "grid"}
           /\ Cardinality(cohort) * Cardinality(calendar) > GridSafetyThreshold)
        => (raised = "GridTooLargeError" /\ Len(df_user_day) <= GridSafetyThreshold)

\* The rows of the enrichment frame visited so far.
Visited == 1 .. processed

\* C17: a failed fetch never aborts the enrichment batch: once the loop is
\* over every row has been visited and carries one api_fetch_status of
\* success, failed or invalid_sha, the rows after a failed one included;
\* the enriched file is written and the successful and failed counts are
\* reported.
C17_BatchSurvivesFailure ==
    /\ (\E i \in DOMAIN sample_df :
           "api_fetch_status" \in DOMAIN sample_df[i]
           /\ sample_df[i].api_fetch_status = "failed")
          => raised = "none"
    /\ pc = "enrich_loop" =>
          \A i \in DOMAIN sample_df :
             sample_df[i].api_fetch_status
                \in (IF i \in Visited THEN {"success", "failed", "invalid_sha"} ELSE {NULL})
    /\ pc = "enrich_done" =>
          /\ processed = Len(sample_df)
          /\ \A i \in DOMAIN sample_df :
                sample_df[i].api_fetch_status \in {"success", "failed", "invalid_sha"}
          /\ output_file = <<sample_df>>
          /\ reported = <<processed, successful, failed>>
          /\ successful = Cardinality({ i \in DOMAIN sample_df :
                                          sample_df[i].api_fetch_status = "success" })
          /\ failed = Cardinality({ i \in DOMAIN sample_df :
                                      sample_df[i].api_fetch_status # "success" })

\* A finished batch in which the first fetch failed and a later row was
\* fetched successfully.
C17_Witness ==
    /\ pc = "enrich_done"
    /\ Len(sample_df) >= 2
    /\ sample_df[1].api_fetch_status = "failed"
    /\ \E i \in 2 .. Len(sample_df) : sample_df[i].api_fetch_status = "success"
    /\ Len(output_file) = 1

\* The commits of a set S of rows of combined_df that fall on a user-day.
OnUserDay(S, r) ==
    { i \in S : /\ combined_df[i].username = r.username
                /\ combined_df[i].country = r.country
                /\ combined_df[i].event_timestamp \div 24 = r.date }

RECURSIVE LinesOf(_, _)
\* The total of a line column over a set of rows of combined_df.
LinesOf(S, col) ==
    IF S = {} THEN 0
    ELSE LET i == CHOOSE i \in S : TRUE
         IN  combined_df[i][col] + LinesOf(S \ {i}, col)

\* C18: a commit whose fetch did not succeed (empty api_ cells) is in no
\* user-day aggregate: the line sums and commits_count of every user-day
\* are those of its fetched commits alone, and every fetched commit of the
\* analysed period, one without changed lines included, is in the
\* aggregate of its user-day.
C18_FailedExcluded ==
    DidPrepared =>
        LET agg == AggregatedCommits
        IN  /\ \A n \in DOMAIN daily_user_stats :
                  LET r == daily_user_stats[n]
                      S == OnUserDay(agg, r)
                  IN  /\ S # {}
                      /\ r.commits_count = Cardinality(S)
                      /\ r.api_additions = LinesOf(S, "api_additions")
                      /\ r.api_deletions = LinesOf(S, "api_deletions")
                      /\ r.api_changes = LinesOf(S, "api_changes")
            /\ \A i \in agg :
                  \E n \in DOMAIN daily_user_stats :
                     i \in OnUserDay(agg, daily_user_stats[n])

\* A user-day with a failed commit and a fetched commit without changed
\* lines: the row counts the fetched one only.
C18_Witness ==
    /\ DidPrepared
    /\ \E n \in DOMAIN daily_user_stats :
          LET r == daily_user_stats[n]
          IN  /\ r.commits_count = 1
              /\ r.api_changes = 0
              /\ \E i \in OnUserDay(DOMAIN combined_df, r) :
                    combined_df[i].api_additions = NaN
    /\ \E i \in DOMAIN combined_df :
          /\ combined_df[i].api_additions = NaN
          /\ \A n \in DOMAIN daily_user_stats :
                i \notin OnUserDay(DOMAIN combined_df, daily_user_stats[n])

\* C19: every outcome of the line-level frame is defined: the sums are
\* non-negative, log_additions, log_deletions and log_changes are values
\* (not NaN), 0 exactly for a sum of 0 and positive otherwise, and no
\* user-day whose fetched commits changed no line is left out.
C19_LogOutcomesDefined ==
    DidPrepared =>
        /\ \A n \in DOMAIN daily_user_stats :
              LET r == daily_user_stats[n]
              IN  \A c \in {"additions", "deletions", "changes"} :
                     LET total == IF c = "additions" THEN r.api_additions
                                  ELSE IF c = "deletions" THEN r.api_deletions
                                  ELSE r.api_changes
                         value == IF c = "additions" THEN r.log_additions
                                  ELSE IF c = "deletions" THEN r.log_deletions
                                  ELSE r.log_changes
                     IN  /\ total >= 0
                         /\ value # NaN
                         /\ value >= 0
                         /\ (value = 0) <=> (total = 0)
        /\ \A i \in AggregatedCommits :
              \E n \in DOMAIN daily_user_stats :
                 /\ daily_user_stats[n].username = combined_df[i].username
                 /\ daily_user_stats[n].country = combined_df[i].country
                 /\ daily_user_stats[n].date = combined_df[i].event_timestamp \div 24

\* A frame with a user-day of zero lines (all three logs 0) and a user-day
\* with changed lines.
C19_Witness ==
    /\ DidPrepared
    /\ \E n, m \in DOMAIN daily_user_stats :
          /\ daily_user_stats[n].api_additions = 0
          /\ daily_user_stats[n].api_deletions = 0
          /\ daily_user_stats[n].api_changes = 0
          /\ daily_user_stats[n].log_additions = 0
          /\ daily_user_stats[n].log_changes = 0
          /\ daily_user_stats[m].api_changes > 0
          /\ daily_user_stats[m].log_changes > 0

\* C20: after the clean-up of save_results every written commit_message
\* has no newline and no carriage return, no two whitespace characters in
\* a row and no whitespace at either end; a missing message is written as
\* the empty string; the frame keeps its number of rows; cleaning a
\* cleaned message changes nothing.
C20_Sanitised ==
    pc = "saved" =>
        LET out == commit_events_file[1]
        IN  /\ Len(out) = Len(commit_events_df)
            /\ \A i \in DOMAIN out :
                  "commit_message" \in DOMAIN out[i] =>
                     LET m == out[i].commit_message
                     IN  /\ \A k \in DOMAIN m : m[k] \notin {"\n", "\r"}
                         /\ \A k \in 1 .. Len(m) - 1 :
                               ~(m[k] \in Whitespace /\ m[k + 1] \in Whitespace)
                         /\ m # <<>> => (m[1] \notin Whitespace /\ m[Len(m)] \notin Whitespace)
                         /\ m # MissingMessage
                         /\ commit_events_df[i].commit_message = MissingMessage => m = <<>>
                         /\ clean_message(m) = m

\* A written frame of two rows: a message with a newline and a carriage
\* return inside and whitespace at both ends, and a missing message.
C20_Witness ==
    /\ pc = "saved"
    /\ Len(commit_events_df) = 2
    /\ "commit_message" \in DOMAIN commit_events_df[1]
    /\ commit_events_df[1].commit_message = <<"\t", "a", "\n", "\r">>
    /\ commit_events_df[2].commit_message = MissingMessage
    /\ commit_events_file[1][1].commit_message = <<"a">>
    /\ commit_events_file[1][2].commit_message = <<>>

\* C21: fetch_commit_data maps each answer to one result: 200 returns the
\* parsed commit, 404 raises ValueError, 401 and 403 raise RuntimeError
\* (with the rate-limit message when X-RateLimit-Remaining is "0" and a
\* reset header is present, an integer or not), every other status raises
\* RuntimeError; no value is returned for a status other than 200 and one
\* request at most is sent.
C21_StatusMapping ==
    /\ requests_get <= 1
    /\ (pc = "fetched" /\ requests_get = 1 /\ response.status_code # 0) =>
          LET o == fetch_outcome
              limited == response.remaining = "0" /\ response.reset # NULL
          IN  /\ (o.kind = "return") <=> (response.status_code = 200)
              /\ o.kind \in {"return", "raise"}
              /\ response.status_code = 200 => o.value = "commit"
              /\ response.status_code = 404 => o.value = "ValueError"
              /\ response.status_code \notin {200, 404} => o.value = "RuntimeError"
              /\ response.status_code \in {401, 403} =>
                    (limited <=> o.message \in {"Rate limit exceeded, resets in",
                                                "Rate limit exceeded (403)"})
              /\ response.status_code \notin {401, 403} =>
                    o.message \notin {"Rate limit exceeded, resets in",
                                      "Rate limit exceeded (403)"}

\* A 403 answer with remaining "0" and a reset header that is no integer
\* has raised RuntimeError with the rate-limit message.
C21_Witness ==
    /\ pc = "fetched"
    /\ requests_get = 1
    /\ response = [status_code |-> 403, remaining |-> "0", reset |-> "soon"]
    /\ fetch_outcome = [kind |-> "raise", value |-> "RuntimeError",
                        message |-> "Rate limit exceeded (403)"]

\* C30: fetch_commit_data validates before it touches the network: with
\* no token argument and no GITHUB_TOKEN it raises EnvironmentError, with
\* a repository name without "/" it raises ValueError, in both cases
\* without sending a request, and the token check comes first.
C30_ValidationFirst ==
    pc = "fetched" =>
        LET no_token == token \in {NULL, ""} /\ env_token \in {NULL, ""}
            no_slash == repository_full_name # "octo/repo"
        IN  /\ no_token =>
                  (fetch_outcome.kind = "raise"
                     /\ fetch_outcome.value = "EnvironmentError" /\ requests_get = 0)
            /\ (~no_token /\ no_slash) =>
                  (fetch_outcome.kind = "raise"
                     /\ fetch_outcome.value = "ValueError" /\ requests_get = 0)
            /\ (~no_token /\ ~no_slash) => requests_get = 1

\* A call with neither a token nor a well-formed repository name ended in
\* EnvironmentError with no request sent.
C30_Witness ==
    /\ pc = "fetched"
    /\ token = NULL /\ env_token = NULL
    /\ repository_full_name = "octorepo"
    /\ fetch_outcome.value = "EnvironmentError"
    /\ requests_get = 0

\* C22: the written sample has at most sample_size commits, and never
\* more commits of a period than the period has in the date-filtered
\* data.
C22_SampleBounded ==
    (pc = "sampled" /\ final_sample # <<>>) =>
        /\ final_sample[1] <= sample_size
        /\ sample_before_size <= before_rows
        /\ sample_after_size <= after_rows

\* Both periods have at least max(50, sample_size // 20) commits.
BothPeriodsLarge ==
    /\ pc = "sampled"
    /\ before_rows >= Max(50, sample_size \div 20)
    /\ after_rows >= Max(50, sample_size \div 20)

\* |x| < y
AbsLess(x, y) == x < y /\ 0 - x < y

\* C28 as stated: when both periods have at least max(50, sample_size //
\* 20) commits, the two sample sizes sum to min(sample_size,
\* total_relevant), each is at most the size of its period, and each
\* differs from sample_size * period_size / total_relevant by less than 2.
C28_ProportionalShare ==
    BothPeriodsLarge =>
        LET total == before_rows + after_rows
        IN  /\ sample_before_size + sample_after_size = Min(sample_size, total)
            /\ sample_before_size <= before_rows
            /\ sample_after_size <= after_rows
            /\ AbsLess(sample_before_size * total - sample_size * before_rows, 2 * total)
            /\ AbsLess(sample_after_size * total - sample_size * after_rows, 2 * total)

\* C28 amended: as above, with the proportional share taken of the number
\* of commits that are sampled, min(sample_size, total_relevant): each
\* sample size differs from min(sample_size, total_relevant) * period_size
\* / total_relevant by less than 2.
C28_ProportionalShareOfSampled ==
    BothPeriodsLarge =>
        LET total   == before_rows + after_rows
            sampled == Min(sample_size, total)
        IN  /\ sample_before_size + sample_after_size = sampled
            /\ sample_before_size <= before_rows
            /\ sample_after_size <= after_rows
            /\ AbsLess(sample_before_size * total - sampled * before_rows, 2 * total)
            /\ AbsLess(sample_after_size * total - sampled * after_rows, 2 * total)

\* A proportional sample smaller than the data in which the remainder
\* was added to the first period.
C28_Witness ==
    /\ BothPeriodsLarge
    /\ sample_size < before_rows + after_rows
    /\ sample_before_size
          > (sample_size * before_rows) \div (before_rows + after_rows)
    /\ sample_before_size + sample_after_size = sample_size

\* C23: event conservation: for the events with a username and a
\* timestamp, the commit_count of every panel row is the number of input
\* events of its (username, country, date), and the commit_count summed
\* over the whole panel (before the window filter) is the number of
\* those events; the left merge neither duplicates nor loses a count.
C23_EventConservation ==
    PanelBuilt =>
        /\ \A i \in DOMAIN df_user_day :
              df_user_day[i].commit_count
                 = EventsOn(df_user_day[i].username, df_user_day[i].country,
                            df_user_day[i].date)
        /\ SumSeq([ i \in DOMAIN df_user_day |-> df_user_day[i].commit_count ])
              = Cardinality(WellFormedEvents)

\* A panel with a user-day of two events, a user-day without events and
\* a second cohort member.
C23_Witness ==
    /\ PanelBuilt
    /\ Cardinality(WellFormedEvents) >= 3
    /\ \E i, j, k \in DOMAIN df_user_day :
          /\ df_user_day[i].commit_count = 2
          /\ df_user_day[j].commit_count = 0
          /\ df_user_day[k].country # df_user_day[i].country

\* C24: bounded retry: fetch_commit_details sends at most two requests
\* for a commit, the second only after a 403 answer with
\* X-RateLimit-Remaining "0" and a reset header and after waiting for the
\* reset; each call ends by returning commit data or None, and no
\* exception leaves it.
C24_BoundedRetry ==
    /\ \A n \in DOMAIN fetch_log :
          LET e == fetch_log[n]
          IN  /\ e.requests \in {1, 2}
              /\ e.requests = 2 => (e.first = "403_reset" /\ e.waited)
              /\ e.waited => e.first = "403_reset"
              /\ e.returned \in {"data", "None"}
              /\ sample_df[e.row].api_fetch_status
                    = (IF e.returned = "data" THEN "success" ELSE "failed")
    /\ http_requests <= 2 * Len(fetch_log)

\* A call that was rate-limited, waited, asked again and got the commit,
\* and a call that gave up after one rate-limited answer without a usable
\* reset header.
C24_Witness ==
    \E n, m \in DOMAIN fetch_log :
       /\ fetch_log[n].first = "403_reset"
       /\ fetch_log[n].requests = 2
       /\ fetch_log[n].returned = "data"
       /\ fetch_log[m].first = "403_badreset"
       /\ fetch_log[m].requests = 1
       /\ fetch_log[m].returned = "None"

\* The rows of the sample carrying a status of the set S.
WithStatus(S) == { i \in DOMAIN sample_df : sample_df[i].api_fetch_status \in S }

\* C25: counters of the enrichment loop: after each iteration processed is
\* successful + failed and is the number of rows visited; at the end
\* successful is the number of rows with status success and failed the
\* number with status failed or invalid_sha; a row whose commit_sha is
\* missing or blank is marked invalid_sha and no request is sent for it.
C25_Counters ==
    /\ pc \in {"enrich_loop", "enrich_done"} =>
          /\ processed = successful + failed
          /\ processed = Cardinality(WithStatus({"success", "failed", "invalid_sha"}))
          /\ WithStatus({"success", "failed", "invalid_sha"}) = Visited
          /\ \A i \in Visited :
                sample_df[i].commit_sha \in {NULL, "   "}
                   <=> sample_df[i].api_fetch_status = "invalid_sha"
          /\ \A i \in WithStatus({"invalid_sha"}) :
                \A n \in DOMAIN fetch_log : fetch_log[n].row # i
          /\ Len(fetch_log) = Cardinality(WithStatus({"success", "failed"}))
          /\ (WithStatus({"success", "failed"}) = {}) => http_requests = 0
    /\ pc = "enrich_done" =>
          /\ successful = Cardinality(WithStatus({"success"}))
          /\ failed = Cardinality(WithStatus({"failed", "invalid_sha"}))
          /\ reported = <<Len(sample_df), successful, failed>>

\* A finished batch of three rows: one with a blank commit_sha, one
\* fetched and one whose fetch failed.
C25_Witness ==
    /\ pc = "enrich_done"
    /\ Len(sample_df) = 3
    /\ successful = 1
    /\ failed = 2
    /\ \E i \in DOMAIN sample_df :
          /\ sample_df[i].commit_sha = "   "
          /\ sample_df[i].api_fetch_status = "invalid_sha"
    /\ WithStatus({"failed"}) # {}
    /\ http_requests >= 2

\* C26: a rate-limit status check never aborts enrichment: check_rate_limit
\* yields a pair (remaining, reset) whatever GET /rate_limit does, so the
\* unpacking of its result never raises and the batch goes on to its rows.
C26_RateCheckNeverAborts == raised # "TypeError"

\* The fetched commits of the loaded corpus, and whether the daily
\* statistics retain the user-day of a commit.
FetchedCommits == { i \in DOMAIN combined_df : ~api_missing(combined_df[i]) }

Retained(i) ==
    \E k \in DOMAIN daily_user_stats :
        /\ daily_user_stats[k].username = combined_df[i].username
        /\ daily_user_stats[k].country = combined_df[i].country
        /\ daily_user_stats[k].date = dt_date(combined_df[i].event_timestamp)

\* C29: with --seven-days-only the line-level analysis retains a commit
\* exactly when its date is before 2023-04-08, the whole pre-period and the
\* window 2023-04-01..2023-04-07; these are the dates the window filter of
\* the panel pipeline keeps for policy_start 2023-04-01 and window_length 7.
C29_SevenDayWindow ==
    (DidPrepared /\ seven_days_only) =>
        /\ policy_start_date = <<2023, 4, 1>> /\ window_length = 7
        /\ \A k \in DOMAIN daily_user_stats : daily_user_stats[k].date < april_8th
        /\ \A i \in FetchedCommits :
              LET d == dt_date(combined_df[i].event_timestamp)
              IN  /\ Retained(i) <=> d < april_8th
                  /\ Retained(i) <=> (d < april_1st \/ (d >= april_1st /\ d <= april_1st + 6))
                  /\ Retained(i) <=> InWindow([date |-> d])

\* A run with --seven-days-only over a pre-period commit, a commit late on
\* 2023-04-07 and a commit on 2023-04-08: the first two retained, the
\* third dropped.
C29_Witness ==
    /\ DidPrepared
    /\ seven_days_only
    /\ \E i, j, k \in FetchedCommits :
          /\ dt_date(combined_df[i].event_timestamp) < april_1st
          /\ dt_date(combined_df[j].event_timestamp) = april_8th - 1
          /\ dt_date(combined_df[k].event_timestamp) = april_8th
          /\ Retained(i) /\ Retained(j) /\ ~Retained(k)

\* The positions of the rows of the commits file that belong to the
\* repository and carry a commit_sha, in file order.
Eligible ==
    SelectSeq([ i \in DOMAIN commits_csv |-> i ],
              LAMBDA i : /\ commits_csv[i].repository_name = TopRepository
                         /\ commits_csv[i].commit_sha \notin {NULL, "   "})

\* C27: with commits_limit = n the number of fetch attempts over all
\* chunks never exceeds n; failed attempts count toward the limit and rows
\* with a blank commit_sha do not; a failed fetch does not stop the later
\* commits from being fetched; the rows fetched before the limit was
\* reached are written to the output file.
C27_LimitRespected ==
    /\ commits_limit # <<>> => Len(attempts) <= commits_limit[1]
    /\ Len(attempts) <= Len(Eligible)
    /\ \A n \in DOMAIN attempts : attempts[n].commit = Eligible[n]
    /\ pc = "csv_done" =>
          /\ Len(attempts) = (IF commits_limit # <<>> /\ commits_limit[1] < Len(Eligible)
                                THEN commits_limit[1] ELSE Len(Eligible))
          /\ Len(changes_csv) = 1
          /\ \A n \in DOMAIN attempts :
                Cardinality({ j \in DOMAIN changes_csv[1] :
                                 changes_csv[1][j].commit = attempts[n].commit })
                   = (IF attempts[n].result.ok THEN attempts[n].result.files ELSE 0)
          /\ \A j \in DOMAIN changes_csv[1] :
                \E n \in DOMAIN attempts : attempts[n].commit = changes_csv[1][j].commit

\* A finished run with limit 2 over at least two chunks: the first fetch
\* failed, a row with a blank commit_sha was passed, the second fetch gave
\* two rows, which are in the output file, and a further commit of the
\* repository was left unfetched.
C27_Witness ==
    /\ pc = "csv_done"
    /\ commits_limit = <<2>>
    /\ chunk_idx >= 2
    /\ Len(attempts) = 2
    /\ ~attempts[1].result.ok
    /\ attempts[2].result = [ok |-> TRUE, files |-> 2]
    /\ \E i \in DOMAIN commits_csv :
          /\ commits_csv[i].repository_name = TopRepository
          /\ commits_csv[i].commit_sha = "   "
          /\ attempts[1].commit < i /\ i < attempts[2].commit
    /\ Len(Eligible) > 2
    /\ Len(changes_csv[1]) = 2

====
